---- MODULE Spec2Model ----
(***************************************************************************)
(* The chain-parameter registry of package chaincfg (eacd): the five       *)
(* package-level maps, Register / mustRegister / init, and the four        *)
(* lookup functions.                                                       *)
(*                                                                         *)
(* Encoding of Go values:                                                  *)
(*   byte            a number in 0..255                                    *)
(*   string, []byte  a sequence of bytes (strings are ASCII code points:   *)
(*                   "1" = 49, "A" = 65, "a" = 97, "eac" = <<101,97,99>>)  *)
(*   [4]byte         a sequence of exactly four bytes                      *)
(*   nil slice       <<>>                                                  *)
(*   map[K]struct{}  the set of its keys                                   *)
(*   wire.BitcoinNet the name of the magic (the numeric values live in     *)
(*                   wire/protocol.go)                                     *)
(*   *Params         Register keeps a slice of the HDPublicKeyID array of  *)
(*                   the object it is given; `registered` is the sequence  *)
(*                   of the Params objects whose registration succeeded    *)
(*                   and hdPrivToPubKeyIDs holds indices into it.          *)
(***************************************************************************)
EXTENDS Integers, Sequences, FiniteSets, TLC

\* ------------------------------------------------------------------ bounds

\* Longest human-readable part a caller-built profile carries.
MaxHRPLen == 1

\* Longest byte slice handed to HDPrivateKeyToPublicKeyID.
MaxIDLen == 5

\* Goroutines that call the lookups concurrently.
NumReaders == 2

\* ------------------------------------------------------------- Go helpers

Byte == 0..255

\* unicode.ToLower on an ASCII code point.
ToLowerRune(c) == IF 65 <= c /\ c <= 90 THEN c + 32 ELSE c

\* unicode.ToUpper on an ASCII code point.
ToUpperRune(c) == IF 97 <= c /\ c <= 122 THEN c - 32 ELSE c

\* strings.ToLower.
ToLower(s) == [i \in 1..Len(s) |-> ToLowerRune(s[i])]

\* All strings over alphabet of length at most n.
BoundedStrings(alphabet, n) == UNION {[1..k -> alphabet] : k \in 0..n}

\* The strings that differ from s only in the case of their letters.
RECURSIVE CaseVariants(_)
CaseVariants(s) ==
    IF s = <<>>
    THEN {<<>>}
    ELSE LET c == s[Len(s)]
         IN  {Append(t, d) : t \in CaseVariants(SubSeq(s, 1, Len(s) - 1)),
                             d \in {c, ToLowerRune(c), ToUpperRune(c)}}

\* m[k] = v on a Go map held as a function.
MapPut(m, k, v) == [x \in (DOMAIN m) \cup {k} |-> IF x = k THEN v ELSE m[x]]

\* ---------------------------------------------------------------- errors

ErrDuplicateNet == "duplicate Earthcoin network"

ErrUnknownHDKeyID == "unknown hd private extended key bytes"

NoError == "nil"

\* --------------------------------------------------- the built-in profiles

\* The magics of package wire, each identifying one network.
MainNet == "MainNet"

TestNet4 == "TestNet4"

TestNet == "TestNet"

SimNet == "SimNet"

MainNetParams ==
    [Net              |-> MainNet,
     Bech32HRPSegwit  |-> <<101, 97, 99>>,
     PubKeyHashAddrID |-> 48,
     ScriptHashAddrID |-> 50,
     HDPrivateKeyID   |-> <<4, 136, 173, 228>>,
     HDPublicKeyID    |-> <<4, 136, 178, 30>>]

RegressionNetParams ==
    [Net              |-> TestNet,
     Bech32HRPSegwit  |-> <<114, 101, 97, 99>>,
     PubKeyHashAddrID |-> 111,
     ScriptHashAddrID |-> 58,
     HDPrivateKeyID   |-> <<4, 53, 131, 148>>,
     HDPublicKeyID    |-> <<4, 53, 135, 207>>]

TestNet4Params ==
    [Net              |-> TestNet4,
     Bech32HRPSegwit  |-> <<116, 101, 97, 99>>,
     PubKeyHashAddrID |-> 111,
     ScriptHashAddrID |-> 58,
     HDPrivateKeyID   |-> <<4, 53, 131, 148>>,
     HDPublicKeyID    |-> <<4, 53, 135, 207>>]

SimNetParams ==
    [Net              |-> SimNet,
     Bech32HRPSegwit  |-> <<115, 101, 97, 99>>,
     PubKeyHashAddrID |-> 63,
     ScriptHashAddrID |-> 123,
     HDPrivateKeyID   |-> <<4, 32, 185, 0>>,
     HDPublicKeyID    |-> <<4, 32, 189, 58>>]

\* ------------------------------------------- data of the built-in profiles

\* Two checkpoints at the same height.
MainNetCheckpointHeightsRepeated == <<100, 10000, 10000, 30000>>

\* MainNetParams.Checkpoints: the Height of each entry, in list order.
MainNetCheckpointHeights ==
    <<100, 10000, 30000, 50000, 69500, 80000, 91000, 101000, 111000, 121000,
      136000, 153000, 161000, 170000, 181000, 191000, 200000, 220000, 240000,
      260000, 280000, 301000, 324000, 347000, 383000, 401000, 420000, 440000,
      461000, 480000, 500000, 510000, 520000, 540000, 600000, 700000, 800001,
      900000, 1000000, 1010001, 1050000, 1060000, 1100000, 1394462, 1400000,
      1410000, 1573741, 1574000, 1579000, 1589000, 1600000, 1650000, 1700000,
      1750000, 1766666, 1888888, 1892222, 2227008, 2242222, 2460000, 2856666>>

\* TestNet4Params.Checkpoints: one entry, at height 0.
TestNet4CheckpointHeights == <<0>>

\* The Checkpoints heights of a built-in profile; RegressionNetParams and
\* SimNetParams have Checkpoints: nil.
CheckpointHeights(params) ==
    CASE params = MainNetParams -> MainNetCheckpointHeights
      [] params = TestNet4Params -> TestNet4CheckpointHeights
      [] OTHER -> <<>>

\* The hex strings of the checkpoint hashes are sequences of hex digits, each
\* digit its value 0..15, in the order written.
\* MainNetParams.Checkpoints: the argument of newHashFromStr of each entry,
\* in list order.
MainNetCheckpointHashStrs ==
    <<<<12,3,13,9,1,12,11,4,7,2,6,6,1,0,13,4,2,2,15,8,6,5,2,10,5,10,7,12,12,2,1,11,13,4,2,14,1,11,8,0,0,9,12,0,0,4,6,2,0,8,1,12,8,1,3,1,6,13,9,10,11,10,13,6>>,
      <<7,11,5,0,14,10,3,11,4,2,14,6,1,3,14,6,5,14,12,2,10,12,10,6,7,9,7,10,5,7,8,0,14,1,12,5,4,5,10,6,1,7,14,4,10,6,1,0,5,7,7,15,11,4,11,0,4,0,15,0,0,3,5,11>>,
      <<4,3,14,2,15,14,7,12,7,0,0,1,9,1,13,13,15,10,11,14,2,12,13,0,9,13,15,13,3,15,12,9,14,11,6,3,3,1,15,3,12,1,9,14,5,9,11,3,14,4,10,8,7,12,15,10,8,8,12,10,12,5,4,3>>,
      <<6,10,4,15,7,0,5,11,7,10,3,4,13,14,7,13,12,1,11,6,5,7,3,11,3,5,9,5,15,13,14,0,5,12,7,11,4,3,0,3,11,3,5,14,13,14,2,0,10,3,11,9,4,5,2,4,4,10,13,12,6,12,7,0>>,
      <<8,3,8,7,11,4,9,8,5,3,9,2,8,15,12,6,7,13,8,11,8,4,2,1,15,13,9,2,1,4,1,8,4,13,11,5,9,0,14,14,14,12,13,9,0,10,2,0,0,12,9,13,9,0,2,13,8,11,4,2,14,1,1,15>>,
      <<10,7,13,7,10,12,0,11,4,11,1,15,5,14,11,5,6,11,5,0,10,13,0,6,9,3,12,4,7,15,4,7,8,6,3,11,8,13,15,8,1,15,1,7,5,1,4,11,12,11,5,14,5,9,12,0,10,4,0,7,4,14,11,10>>,
      <<3,15,1,3,5,14,0,14,0,6,10,14,0,3,2,13,14,5,4,3,7,10,14,2,11,9,8,1,14,3,10,11,8,4,12,7,13,2,2,3,1,0,2,2,4,10,6,14,5,3,12,6,14,6,14,7,6,9,14,8,15,8,15,0>>,
      <<11,10,5,9,4,8,14,15,9,15,12,14,3,8,8,8,7,13,15,2,4,12,5,4,3,6,6,1,2,1,4,3,7,13,3,3,6,11,13,6,7,10,4,3,3,2,5,0,8,2,4,8,13,14,15,0,0,3,2,12,5,13,6,14>>,
      <<11,11,9,12,12,6,14,2,13,9,13,10,3,4,3,7,7,4,13,12,4,11,4,9,11,14,4,1,7,7,3,1,9,9,1,11,9,0,14,15,5,3,10,7,15,10,7,14,11,6,6,9,12,12,14,2,3,7,2,2,3,12,3,7>>,
      <<1,13,2,8,6,9,5,6,1,2,0,12,15,2,5,6,11,14,13,1,3,11,12,12,1,15,5,15,14,7,9,10,9,8,3,4,7,12,8,0,15,2,2,2,5,13,14,13,9,2,11,11,11,13,15,12,1,1,4,7,11,5,15,5>>,
      <<11,7,12,7,4,1,6,12,4,0,4,2,5,11,12,7,9,7,6,12,7,11,6,11,8,7,7,3,4,14,2,15,11,8,4,8,5,5,14,14,12,13,3,0,14,3,14,9,6,7,3,12,10,15,8,12,7,15,5,9,9,11,5,12>>,
      <<9,15,3,1,10,11,13,2,7,7,2,1,14,7,14,11,2,11,5,8,12,0,10,6,1,10,1,1,7,12,3,2,4,10,3,10,6,11,8,15,4,5,12,8,2,14,8,9,6,3,11,1,11,13,1,4,1,6,6,15,6,5,1,0>>,
      <<15,7,10,9,0,6,9,12,7,0,5,5,1,6,15,6,0,8,7,8,11,15,6,13,10,9,11,10,12,0,2,12,1,2,13,0,13,8,9,8,4,12,11,9,0,11,12,14,0,3,15,14,3,4,8,4,2,11,10,7,14,11,3,13>>,
      <<8,2,7,13,5,12,14,5,14,13,6,9,1,5,3,13,14,10,12,10,11,9,10,2,13,3,12,3,5,10,7,11,3,3,12,13,10,10,3,9,7,10,6,10,4,10,5,4,0,13,5,3,8,11,7,6,5,1,8,2,15,2,3,4>>,
      <<6,9,15,10,4,8,14,8,11,9,2,3,1,15,1,0,1,13,15,7,9,12,5,11,3,1,7,4,15,14,11,7,0,11,15,6,13,10,1,1,13,8,8,10,4,12,14,8,7,9,10,7,12,9,14,12,11,7,9,9,15,4,6,13>>,
      <<8,0,10,9,14,10,6,11,3,7,5,3,1,2,12,3,7,6,13,14,8,8,0,11,6,9,5,8,4,5,9,9,7,3,10,9,5,11,14,1,13,12,11,15,2,8,13,11,1,7,3,1,4,5,2,10,5,9,14,15,9,7,5,0>>,
      <<0,0,3,10,4,12,11,3,11,15,2,0,6,12,15,12,2,3,11,9,4,7,7,14,1,12,4,3,3,2,8,0,10,14,1,11,3,3,9,3,10,2,1,10,10,8,5,8,10,10,3,2,2,14,8,4,0,2,2,0,4,12,13,0>>,
      <<11,14,13,9,7,12,0,9,9,8,3,13,1,14,14,1,4,13,5,15,9,2,5,12,3,1,13,12,4,2,4,5,11,6,12,9,13,6,6,10,15,4,15,13,10,13,12,15,9,7,3,4,6,5,12,11,2,6,5,11,5,2,12,3>>,
      <<13,4,14,7,8,2,10,10,14,2,1,15,5,5,1,13,4,10,8,13,7,7,5,6,14,11,9,2,13,15,10,2,12,11,2,3,13,1,14,13,14,5,8,1,6,2,3,8,2,11,3,11,11,12,14,13,4,15,11,14,14,5,1,8>>,
      <<13,15,10,14,15,0,1,6,3,4,1,15,10,11,6,4,2,1,9,0,10,6,6,5,6,11,6,12,5,2,14,15,11,13,11,4,3,12,14,8,10,5,9,0,11,10,12,14,8,6,7,9,3,15,3,12,1,11,1,2,7,6,11,14>>,
      <<6,11,8,3,6,1,2,5,14,4,3,1,13,3,15,13,3,1,14,15,5,5,15,5,15,11,11,13,15,13,10,13,12,4,13,9,11,9,8,11,1,1,13,11,5,14,14,0,11,7,10,12,8,15,1,15,8,12,3,14,13,14,3,2>>,
      <<12,5,5,7,13,7,3,6,3,3,9,3,1,4,8,10,6,3,0,10,3,15,13,10,4,6,12,10,3,8,0,10,2,0,2,15,14,8,2,15,10,5,9,4,12,5,14,5,7,15,8,8,15,11,14,12,14,7,5,5,11,11,0,5>>,
      <<8,15,6,12,11,3,3,15,13,7,5,14,3,2,7,14,11,1,10,1,13,9,0,11,1,3,11,10,2,1,2,4,14,0,7,7,11,4,12,12,5,2,4,0,11,12,7,14,12,8,0,3,9,10,14,14,8,10,3,4,5,14,8,5>>,
      <<15,4,11,13,9,8,9,4,3,0,6,9,8,1,12,10,4,12,2,0,12,13,11,15,0,11,11,13,9,14,9,8,3,2,6,9,6,7,0,1,15,5,11,3,13,3,10,8,4,0,13,0,2,6,11,8,9,3,13,11,7,3,3,7>>,
      <<13,9,0,2,12,15,2,1,4,8,0,8,5,1,12,3,5,8,4,4,11,0,7,4,4,14,10,7,2,12,1,11,12,2,13,9,3,1,8,14,8,7,10,7,13,14,6,3,10,5,14,3,14,3,8,5,4,3,3,1,10,3,9,12>>,
      <<14,4,3,4,1,7,14,11,3,11,5,8,3,15,13,2,8,13,15,11,15,11,3,8,12,6,5,7,6,3,13,9,9,0,11,4,12,3,7,0,0,6,6,10,12,6,1,5,10,0,8,12,4,12,5,12,3,9,1,0,14,11,12,9>>,
      <<7,6,14,0,13,14,5,10,13,11,1,1,7,14,1,2,14,8,5,11,14,11,2,6,4,12,4,5,14,7,6,8,14,4,7,13,1,7,2,0,13,7,2,10,4,9,10,2,4,13,10,10,11,5,7,4,9,3,14,0,7,10,0,4>>,
      <<11,11,12,6,0,5,1,5,5,4,14,9,3,6,13,0,10,1,8,10,13,13,13,11,9,5,0,6,4,11,1,6,10,0,0,1,12,14,1,6,4,13,0,6,1,15,11,3,9,9,15,2,6,4,1,6,12,14,7,8,6,0,15,9>>,
      <<10,6,0,13,6,7,9,9,1,11,4,9,6,3,14,15,14,14,5,11,1,0,2,12,2,8,1,7,5,5,10,15,13,14,2,8,8,0,3,11,9,11,12,0,11,6,4,7,15,0,12,11,12,2,1,2,0,11,3,5,1,8,5,11>>,
      <<13,8,8,14,6,15,5,14,7,7,10,8,12,11,4,11,12,11,8,8,3,1,6,8,15,3,5,7,10,9,4,13,11,3,1,2,0,3,15,1,9,7,7,10,1,5,13,9,0,11,6,15,6,13,4,12,2,14,13,14,11,11,11,11>>,
      <<10,2,9,8,9,13,10,9,15,8,14,7,8,5,15,7,0,4,0,12,2,14,2,13,15,12,0,1,7,7,11,10,11,11,15,7,3,6,12,15,10,13,9,15,2,11,4,0,1,6,5,6,15,14,10,4,12,3,12,7,12,9,13,11>>,
      <<7,6,4,6,14,14,1,10,9,9,8,4,3,15,1,14,3,0,3,13,8,5,14,1,4,12,5,8,13,11,15,2,11,13,6,5,11,3,9,3,11,2,7,3,11,3,7,9,13,14,1,4,5,3,4,7,4,3,1,1,1,11,7,2>>,
      <<1,1,4,15,6,12,2,0,6,5,10,13,5,14,6,6,8,11,9,0,1,13,13,5,14,13,5,14,9,13,3,0,2,13,6,1,5,3,15,8,14,3,8,3,8,1,15,11,15,13,4,4,4,8,5,13,7,13,4,9,9,14,1,0>>,
      <<13,7,4,8,0,6,9,9,15,15,8,7,5,7,4,11,15,10,13,0,0,3,8,11,8,6,9,7,15,9,11,12,4,13,15,5,15,0,12,11,10,3,1,0,5,8,10,6,3,7,14,14,15,11,12,9,4,14,4,0,2,7,6,1>>,
      <<8,5,10,12,8,13,11,11,11,10,7,10,8,7,0,10,4,5,7,4,0,6,7,7,11,14,5,15,3,5,1,1,4,12,11,3,11,7,0,15,5,6,13,1,12,9,3,12,12,2,10,10,15,4,1,5,6,2,9,0,3,7,14,7>>,
      <<4,5,0,10,15,2,15,8,2,8,12,13,15,11,2,9,11,14,4,0,13,6,4,4,13,3,9,10,0,8,5,8,11,2,9,15,14,0,5,11,5,5,6,9,4,6,13,11,3,1,10,7,12,3,6,5,12,15,15,14,13,7,0,5>>,
      <<10,6,13,9,1,5,10,2,5,14,9,0,5,13,1,3,2,9,14,4,8,2,10,10,12,9,1,2,2,8,11,1,6,8,13,14,6,14,6,14,15,11,3,8,3,8,13,15,1,6,12,2,1,12,3,10,12,3,10,8,2,14,10,2>>,
      <<7,8,5,4,10,4,6,14,13,11,13,12,4,3,1,1,0,0,6,10,9,15,13,2,7,10,14,6,0,1,11,11,1,14,11,13,2,2,15,12,5,14,8,13,6,15,1,7,5,7,14,1,5,2,3,7,0,8,0,10,5,4,5,11>>,
      <<14,12,0,7,0,0,2,2,10,4,15,14,9,11,4,5,0,14,0,2,14,13,13,0,8,12,6,14,13,3,5,5,0,4,7,11,12,8,14,6,5,14,15,0,5,14,8,8,1,11,5,1,12,2,1,2,13,7,12,0,15,14,9,5>>,
      <<10,2,12,11,8,2,11,4,10,14,0,4,8,5,4,1,0,8,11,1,8,12,5,0,2,15,1,11,3,3,14,1,8,12,6,15,6,9,11,9,13,4,4,0,7,14,8,10,10,2,0,5,10,2,3,2,4,2,12,13,4,13,10,15>>,
      <<3,3,6,9,15,10,1,6,3,9,4,10,10,2,2,2,7,3,6,7,9,3,15,13,3,15,13,5,0,13,7,15,7,10,3,4,13,5,11,1,15,15,6,7,11,3,4,4,14,10,11,10,2,6,9,13,10,10,11,2,8,10,6,8>>,
      <<4,4,14,3,11,2,11,15,11,15,11,9,14,14,15,5,14,15,3,4,13,15,4,4,7,12,9,14,10,4,12,4,9,1,2,11,8,10,3,8,1,9,12,2,12,5,6,13,15,13,0,13,12,0,2,13,11,8,10,8,4,3,4,7>>,
      <<4,1,7,3,0,3,1,4,2,0,2,8,5,6,3,6,14,14,14,12,15,10,11,9,4,14,4,14,6,2,14,3,10,3,12,15,6,14,1,4,4,11,9,7,11,2,12,12,3,6,2,2,12,6,8,3,14,0,9,1,0,2,15,0>>,
      <<14,15,3,0,8,11,7,15,4,7,7,9,0,3,10,12,13,8,15,3,0,0,14,6,15,0,6,8,4,12,4,8,8,8,12,14,2,8,12,4,9,1,15,12,3,2,12,1,12,4,6,9,11,15,11,10,6,10,11,15,0,9,1,11>>,
      <<4,11,12,5,7,12,3,10,5,7,12,12,9,7,7,13,11,9,15,3,11,13,6,10,0,9,5,15,5,1,12,0,12,7,12,12,9,12,3,0,15,10,8,5,5,4,5,0,5,15,10,8,15,8,14,3,3,13,9,15,2,11,8,0>>,
      <<7,5,1,2,5,7,4,14,12,7,1,7,13,4,6,10,9,0,11,8,12,3,6,15,13,9,2,3,14,15,8,1,9,15,13,12,2,9,8,11,8,14,4,11,14,5,7,11,14,6,3,1,5,1,9,6,6,2,15,0,13,11,5,9>>,
      <<6,14,4,13,10,12,15,13,1,6,8,4,14,7,1,10,1,7,8,15,2,9,15,3,14,9,12,7,1,4,13,2,6,4,14,6,13,3,8,5,15,6,4,12,3,1,12,13,11,14,5,3,2,11,3,2,0,4,12,14,4,14,1,13>>,
      <<12,14,15,3,8,9,8,6,8,14,15,13,7,7,8,5,11,9,7,7,14,11,8,6,5,2,7,14,8,0,4,9,10,2,10,5,14,10,4,7,2,10,6,14,13,9,11,15,12,0,7,4,1,12,6,13,6,11,3,9,2,3,4,11>>,
      <<1,2,12,11,8,10,14,2,8,1,0,7,13,9,9,15,4,11,10,2,4,4,6,5,11,9,10,11,15,2,1,15,9,8,15,14,8,5,5,13,9,11,0,9,4,4,9,12,15,5,12,8,14,13,9,8,1,2,0,8,2,9,12,1>>,
      <<4,7,9,7,4,6,12,2,7,14,3,2,3,14,2,3,3,14,5,8,10,15,6,0,2,4,11,11,7,11,9,7,2,7,10,2,6,11,12,0,1,1,4,12,2,6,15,15,5,3,7,4,6,9,14,6,10,13,10,1,0,5,14,1>>,
      <<15,4,4,12,11,13,12,11,2,1,15,12,7,7,1,6,9,4,7,15,7,6,3,12,12,12,10,5,13,14,5,11,0,2,15,15,15,15,7,15,1,4,11,14,10,15,14,15,0,10,7,4,8,6,0,6,7,15,6,7,7,7,15,10>>,
      <<7,0,12,10,10,11,11,0,7,2,0,12,9,5,15,6,7,10,0,2,14,10,11,15,13,14,2,7,2,5,3,14,10,10,8,6,9,8,13,12,6,14,10,5,7,1,6,6,3,1,8,9,0,8,7,6,11,9,13,15,4,2,1,10>>,
      <<6,9,1,14,11,6,2,13,2,5,10,0,9,6,1,14,8,1,15,1,10,8,4,2,7,11,8,12,2,1,14,0,1,10,13,14,5,11,14,15,14,4,10,9,4,11,14,5,8,2,6,15,4,9,12,15,14,12,12,0,7,0,10,0>>,
      <<8,9,7,1,15,1,7,9,0,14,5,8,12,6,13,14,0,14,10,2,8,5,4,8,7,2,12,6,10,13,0,3,7,5,2,11,6,5,5,6,7,10,11,8,14,5,12,8,4,5,8,10,14,4,10,6,14,11,9,15,11,7,8,3>>,
      <<15,15,11,7,13,3,0,14,12,4,13,2,0,12,10,14,9,2,6,10,15,0,5,2,5,2,13,12,3,9,13,11,12,4,3,3,11,0,6,8,10,0,8,0,7,10,8,15,0,13,15,10,6,3,5,2,1,12,10,12,10,6,15,0>>,
      <<8,9,5,3,0,13,11,10,7,7,8,13,11,5,10,5,4,0,10,10,12,6,11,7,11,8,6,5,9,12,14,14,8,9,0,9,11,10,4,4,5,15,10,5,10,5,4,11,10,3,0,2,3,14,9,8,14,0,4,5,6,9,2,13>>,
      <<6,8,5,10,2,3,12,15,10,7,5,14,4,14,0,8,4,15,3,2,11,6,10,4,10,14,0,9,11,3,1,1,3,12,9,5,0,9,13,8,4,12,14,0,5,5,9,8,1,3,6,2,7,13,4,6,2,13,15,6,13,11,8,8>>,
      <<2,3,14,11,6,12,10,0,15,12,8,7,12,8,8,7,4,8,5,10,1,4,1,7,3,6,4,13,10,14,6,12,3,10,14,5,12,12,4,8,0,1,12,6,14,14,15,8,15,12,2,11,6,11,11,8,3,12,13,15,9,0,1,3>>,
      <<9,8,11,0,1,14,7,7,2,15,0,12,10,3,11,3,10,12,8,7,5,8,5,7,14,4,15,3,11,6,5,7,1,15,8,15,1,8,11,8,11,8,9,6,13,0,12,11,2,15,14,14,15,14,12,10,9,0,11,6,9,5,8,3>>,
      <<1,3,13,12,12,4,3,2,11,5,4,1,15,3,4,5,3,9,15,0,5,8,2,14,11,10,13,2,10,11,0,4,5,13,11,3,9,9,14,5,8,4,0,4,3,8,5,14,14,1,14,2,4,11,4,7,1,3,3,4,6,10,5,11>>,
      <<0,5,7,3,9,1,10,1,0,3,11,12,10,1,11,5,4,3,3,1,12,5,3,10,12,8,1,11,9,14,5,15,5,8,8,10,3,5,9,12,10,6,10,3,0,6,8,10,5,3,1,0,3,12,3,3,13,0,15,0,14,7,14,15>>>>

\* TestNet4Params.Checkpoints: the argument of newHashFromStr of each entry.
TestNet4CheckpointHashStrs ==
    <<<<1,4,11,1,13,10,8,0,11,3,13,7,3,4,13,3,6,10,4,10,2,11,14,9,7,14,13,2,12,9,13,4,9,14,7,9,12,4,7,2,1,3,13,5,11,12,12,1,5,11,4,7,5,10,1,1,1,5,13,2,8,9,1,8>>>>

\* The hex strings of the Checkpoints of a built-in profile, in list order.
CheckpointHashStrs(params) ==
    CASE params = MainNetParams -> MainNetCheckpointHashStrs
      [] params = TestNet4Params -> TestNet4CheckpointHashStrs
      [] OTHER -> <<>>

\* chainhash.HashSize and chainhash.MaxHashStringSize.
HashSize == 32
MaxHashStringSize == HashSize * 2

ErrHashStrSize == "ErrHashStrSize"

\* chainhash.NewHashFromStr: a string longer than MaxHashStringSize is an
\* error; a shorter one is padded with zero digits on the left; each pair of
\* digits is a byte and the bytes are stored in reverse order.
NewHashFromStr(hexStr) ==
    IF Len(hexStr) > MaxHashStringSize
    THEN [hash |-> <<>>, err |-> ErrHashStrSize]
    ELSE LET pad == MaxHashStringSize - Len(hexStr)
             digit(k) == IF k <= pad THEN 0 ELSE hexStr[k - pad]
             byte(b) == 16 * digit(2 * b - 1) + digit(2 * b)
         IN  [hash |-> [i \in 1..HashSize |-> byte(HashSize + 1 - i)], err |-> NoError]

\* newHashFromStr: the hash of chainhash.NewHashFromStr; an error panics.
newHashFromStr(hexStr) ==
    LET r == NewHashFromStr(hexStr)
    IN  IF r.err # NoError THEN [hash |-> <<>>, panic |-> TRUE]
        ELSE [hash |-> r.hash, panic |-> FALSE]

\* genesisHash: the hash of the first block of the main network, bytes in
\* the order of the array.
genesisHash ==
    <<237, 108, 20, 249, 226, 17, 149, 108,
      204, 216, 188, 139, 114, 6, 173, 131,
      228, 24, 247, 154, 203, 241, 56, 5,
      28, 48, 3, 244, 77, 125, 113, 33>>

\* regTestGenesisHash: the hash of the first block of the regression test network, bytes in
\* the order of the array.
regTestGenesisHash ==
    <<249, 22, 196, 86, 252, 81, 223, 98,
      120, 133, 215, 214, 116, 237, 2, 220,
      136, 162, 37, 173, 179, 240, 42, 209,
      62, 180, 147, 143, 243, 39, 8, 83>>

\* testNet4GenesisHash: the hash of the first block of the test network (version 4), bytes in
\* the order of the array.
testNet4GenesisHash ==
    <<160, 41, 62, 78, 235, 61, 166, 230,
      245, 111, 129, 237, 89, 95, 87, 136,
      13, 26, 33, 86, 158, 19, 238, 253,
      217, 81, 40, 75, 90, 98, 102, 73>>

\* simNetGenesisHash: the hash of the first block of the simulation test network, bytes in
\* the order of the array.
simNetGenesisHash ==
    <<190, 164, 59, 58, 180, 188, 157, 134,
      43, 250, 188, 13, 69, 163, 197, 201,
      208, 159, 102, 32, 206, 125, 182, 120,
      181, 220, 29, 184, 25, 201, 53, 18>>

\* The GenesisHash field of a built-in profile.
GenesisHash(params) ==
    CASE params = MainNetParams -> genesisHash
      [] params = RegressionNetParams -> regTestGenesisHash
      [] params = TestNet4Params -> testNet4GenesisHash
      [] params = SimNetParams -> simNetGenesisHash

\* Numbers wider than the checker's integers are sequences of bytes, most
\* significant first.  BigEndian(n, w) is the w-byte form of n < 2^31.
BigEndian(n, w) ==
    [i \in 1..w |-> IF w - i >= 4 THEN 0 ELSE (n \div (256 ^ (w - i))) % 256]

\* a < b, for byte sequences of one length.
Less(a, b) ==
    \E i \in DOMAIN a : a[i] < b[i] /\ \A j \in 1..(i - 1) : a[j] = b[j]

\* uint64(n)
U64(n) == BigEndian(n, 8)

\* math.MaxInt64 as a uint64: 0x7fffffffffffffff.
MaxInt64 == <<127, 255, 255, 255, 255, 255, 255, 255>>

\* The deployment slots (an iota enumeration) and their number.
DeploymentTestDummy == 0

DeploymentCSV == 1

DeploymentSegwit == 2

DefinedDeployments == 3

\* The CSV deployment expiring before it starts.
MainNetDeploymentsCSVExpired ==
    DeploymentTestDummy :> [StartTime |-> U64(1199145601), ExpireTime |-> U64(1230767999)]
    @@ DeploymentCSV :> [StartTime |-> U64(1517356801), ExpireTime |-> U64(1485561600)]
    @@ DeploymentSegwit :> [StartTime |-> U64(1485561600), ExpireTime |-> U64(1517356801)]

\* MainNetParams.Deployments
MainNetDeployments ==
    DeploymentTestDummy :> [StartTime |-> U64(1199145601), ExpireTime |-> U64(1230767999)]
    @@ DeploymentCSV :> [StartTime |-> U64(1485561600), ExpireTime |-> U64(1517356801)]
    @@ DeploymentSegwit :> [StartTime |-> U64(1485561600), ExpireTime |-> U64(1517356801)]

\* RegressionNetParams.Deployments
RegressionNetDeployments ==
    DeploymentTestDummy :> [StartTime |-> U64(0), ExpireTime |-> MaxInt64]
    @@ DeploymentCSV :> [StartTime |-> U64(0), ExpireTime |-> MaxInt64]
    @@ DeploymentSegwit :> [StartTime |-> U64(0), ExpireTime |-> MaxInt64]

\* TestNet4Params.Deployments
TestNet4Deployments ==
    DeploymentTestDummy :> [StartTime |-> U64(1199145601), ExpireTime |-> U64(1230767999)]
    @@ DeploymentCSV :> [StartTime |-> U64(1483228800), ExpireTime |-> U64(1517356801)]
    @@ DeploymentSegwit :> [StartTime |-> U64(1483228800), ExpireTime |-> U64(1517356801)]

\* SimNetParams.Deployments
SimNetDeployments ==
    DeploymentTestDummy :> [StartTime |-> U64(0), ExpireTime |-> MaxInt64]
    @@ DeploymentCSV :> [StartTime |-> U64(0), ExpireTime |-> MaxInt64]
    @@ DeploymentSegwit :> [StartTime |-> U64(0), ExpireTime |-> MaxInt64]

\* The Deployments table of a built-in profile.
Deployments(params) ==
    CASE params = MainNetParams -> MainNetDeployments
      [] params = RegressionNetParams -> RegressionNetDeployments
      [] params = TestNet4Params -> TestNet4Deployments
      [] params = SimNetParams -> SimNetDeployments

\* A big.Int below 2^256 is a sequence of 32 bytes, most significant first;
\* the byte at index i has significance 32 - i.

\* new(big.Int).SetString("0x...", 0) for a string of 60 hexadecimal digits,
\* given as digit values: two digits to a byte, behind two zero bytes.
BigFromHex60(digits) ==
    [i \in 1..32 |-> IF i <= 2 THEN 0
                     ELSE 16 * digits[2 * (i - 2) - 1] + digits[2 * (i - 2)]]

\* new(big.Int).Sub(new(big.Int).Lsh(bigOne, n), bigOne): 2^n - 1.
BigPow2Minus1(n) ==
    [i \in 1..32 |-> LET low == 8 * (32 - i)
                     IN  IF low + 8 <= n THEN 255
                         ELSE IF low < n THEN 2 ^ (n - low) - 1
                         ELSE 0]

\* "0x0fffff000000000000000000000000000000000000000000000000000000"
mainPowLimit == BigFromHex60([i \in 1..60 |-> IF i = 1 THEN 0 ELSE IF i <= 6 THEN 15 ELSE 0])

regressionPowLimit == BigPow2Minus1(255)

testNet4PowLimit == BigFromHex60([i \in 1..60 |-> IF i = 1 THEN 0 ELSE IF i <= 6 THEN 15 ELSE 0])

simNetPowLimit == BigPow2Minus1(255)

\* The PowLimit of a built-in profile.
PowLimit(params) ==
    CASE params = MainNetParams -> mainPowLimit
      [] params = RegressionNetParams -> regressionPowLimit
      [] params = TestNet4Params -> testNet4PowLimit
      [] params = SimNetParams -> simNetPowLimit

\* The PowLimitBits of a built-in profile (504365055 is 0x1e0fffff,
\* 545259519 is 0x207fffff).
PowLimitBits(params) ==
    CASE params = MainNetParams -> 504365055
      [] params = RegressionNetParams -> 545259519
      [] params = TestNet4Params -> 504365055
      [] params = SimNetParams -> 545259519

\* The target a compact value stands for: mantissa * 256^(exponent - 3), with
\* the mantissa the low 23 bits and the exponent the high byte.  The three
\* mantissa bytes have significance exponent-3 .. exponent-1.
CompactToBig(bits) ==
    LET mantissa == bits % (2 ^ 23)
        exponent == bits \div (2 ^ 24)
    IN  [i \in 1..32 |-> LET k == (32 - i) - (exponent - 3)
                         IN  IF k \in 0..2 THEN (mantissa \div (256 ^ k)) % 256 ELSE 0]

\* TargetTimespan of a built-in profile, a time.Duration, in seconds
\* (time.Minute * 30, and for simnet time.Hour * 24 * 14).
TargetTimespan(params) ==
    CASE params = MainNetParams -> 60 * 30
      [] params = RegressionNetParams -> 60 * 30
      [] params = TestNet4Params -> 60 * 30
      [] params = SimNetParams -> 3600 * 24 * 14

\* TargetTimePerBlock of a built-in profile, in seconds (time.Minute * 1, and
\* for simnet time.Minute * 10).
TargetTimePerBlock(params) ==
    CASE params = MainNetParams -> 60 * 1
      [] params = RegressionNetParams -> 60 * 1
      [] params = TestNet4Params -> 60 * 1
      [] params = SimNetParams -> 60 * 10

\* RuleChangeActivationThreshold of a built-in profile.
RuleChangeActivationThreshold(params) ==
    CASE params = MainNetParams -> 6048
      [] params = RegressionNetParams -> 108
      [] params = TestNet4Params -> 1512
      [] params = SimNetParams -> 75

\* MinerConfirmationWindow of a built-in profile.
MinerConfirmationWindow(params) ==
    CASE params = MainNetParams -> 8064
      [] params = RegressionNetParams -> 144
      [] params = TestNet4Params -> 2016
      [] params = SimNetParams -> 100

\* One default network registered twice and another left out.
InitOrderTestNet4Twice ==
    <<MainNetParams, TestNet4Params, TestNet4Params, SimNetParams>>

\* The order in which init() registers the default networks.
InitOrder == <<MainNetParams, TestNet4Params, RegressionNetParams, SimNetParams>>

\* ------------------------------------------------------------ the inputs

\* Magics a caller uses for its own networks.
CustomNets == {"0xAABBCCDD", "0x0BADCAFE"}

\* Magics caller-built profiles carry: their own, and one that is taken.
InputNets == CustomNets \cup {MainNet}

\* The custom profile every caller-built profile is a variation of.
CustomParams ==
    [Net              |-> "0xAABBCCDD",
     Bech32HRPSegwit  |-> <<120, 121, 122>>,
     PubKeyHashAddrID |-> 31,
     ScriptHashAddrID |-> 0,
     HDPrivateKeyID   |-> <<1, 2, 3, 4>>,
     HDPublicKeyID    |-> <<5, 6, 7, 8>>]

\* Characters of the human-readable parts callers try: "1" and "A".
Alphabet == {49, 65}

HRPs == BoundedStrings(Alphabet, MaxHRPLen) \cup {CustomParams.Bech32HRPSegwit}

Fields ==
    {"Bech32HRPSegwit", "PubKeyHashAddrID", "ScriptHashAddrID",
     "HDPrivateKeyID", "HDPublicKeyID"}

\* The profiles Register is called with: the built-in ones, caller-built ones
\* with at most one field besides Net changed from CustomParams (to a value a
\* built-in profile uses, or to another string), and CustomParams under each
\* built-in magic.
InputParams ==
    {p \in [Net              : InputNets,
            Bech32HRPSegwit  : HRPs,
            PubKeyHashAddrID : {CustomParams.PubKeyHashAddrID, MainNetParams.PubKeyHashAddrID},
            ScriptHashAddrID : {CustomParams.ScriptHashAddrID, MainNetParams.ScriptHashAddrID},
            HDPrivateKeyID   : {CustomParams.HDPrivateKeyID, TestNet4Params.HDPrivateKeyID},
            HDPublicKeyID    : {CustomParams.HDPublicKeyID, TestNet4Params.HDPublicKeyID}] :
        Cardinality({f \in Fields : p[f] # CustomParams[f]}) <= 1}
        \cup {[CustomParams EXCEPT !.Net = n] : n \in {MainNet, TestNet4, TestNet, SimNet}}
        \cup {InitOrder[i] : i \in DOMAIN InitOrder}

\* Address IDs the lookups are called with.
InputIDs ==
    {p.PubKeyHashAddrID : p \in InputParams} \cup {p.ScriptHashAddrID : p \in InputParams}
        \cup {255}

\* Prefixes IsBech32SegwitPrefix is called with: the strings over Alphabet one
\* longer than a human-readable part, the same in lower case, and "eac",
\* "eac1", "EAC1", "Eac1", "xyz1", "XYZ1", "Xyz1".
InputPrefixes ==
    LET S == BoundedStrings(Alphabet, MaxHRPLen + 1)
    IN  S \cup {ToLower(x) : x \in S}
          \cup {<<101, 97, 99>>, <<101, 97, 99, 49>>, <<69, 65, 67, 49>>, <<69, 97, 99, 49>>,
                <<120, 121, 122, 49>>, <<88, 89, 90, 49>>, <<88, 121, 122, 49>>}

\* Byte slices HDPrivateKeyToPublicKeyID is called with: every prefix of a
\* four-byte id, and the id followed by zero bytes, up to MaxIDLen bytes.
InputKeys ==
    LET ids == {p.HDPrivateKeyID : p \in InputParams} \cup {<<1, 2, 3, 5>>}
    IN  {[i \in 1..n |-> IF i <= 4 THEN k[i] ELSE 0] : k \in ids, n \in 0..MaxIDLen}

\* ------------------------------------------------------------- the state

VARIABLES
    registeredNets,        \* map[wire.BitcoinNet]struct{}
    pubKeyHashAddrIDs,     \* map[byte]struct{}
    scriptHashAddrIDs,     \* map[byte]struct{}
    bech32SegwitPrefixes,  \* map[string]struct{}
    hdPrivToPubKeyIDs,     \* map[[4]byte][]byte: key -> index into registered
    registered,            \* the Params objects registered so far, in order
    initPos,               \* how many statements of init() have run
    panicked,              \* mustRegister has panicked
    call,                  \* the last call: [op, arg, ret, err]
    again,                 \* the last call repeats a Register that had just succeeded
    wr,                    \* the goroutine in Register: [pc, params, n]
    rd,                    \* the goroutines in lookups: [pc, op, arg, ret, err] each
    sealed,                \* the write phase is over: no Register call will be made
    fatal,                 \* the runtime has ended the process (concurrent map access)
    ws                     \* two goroutines that each call Register once: [pc, params, err]

indices ==
    <<registeredNets, pubKeyHashAddrIDs, scriptHashAddrIDs, bech32SegwitPrefixes,
      hdPrivToPubKeyIDs>>

\* The state of the goroutines.
conc == <<wr, rd, sealed, fatal, ws>>

vars ==
    <<registeredNets, pubKeyHashAddrIDs, scriptHashAddrIDs, bech32SegwitPrefixes,
      hdPrivToPubKeyIDs, registered, initPos, panicked, call, again, wr, rd, sealed,
      fatal, ws>>

Readers == 1..NumReaders

\* A goroutine that is in no call.
IdleWriter == [pc |-> "idle", params |-> <<>>, n |-> 0]

\* The two goroutines that register the same magic.
Writers == {1, 2}

IdleReader == [pc |-> "idle", op |-> "none", arg |-> <<>>, ret |-> <<>>, err |-> NoError]

Init ==
    /\ registeredNets = {}
    /\ pubKeyHashAddrIDs = {}
    /\ scriptHashAddrIDs = {}
    /\ bech32SegwitPrefixes = {}
    /\ hdPrivToPubKeyIDs = <<>>
    /\ registered = <<>>
    /\ initPos = 0
    /\ panicked = FALSE
    /\ call = [op |-> "none", arg |-> <<>>, ret |-> <<>>, err |-> NoError]
    /\ again = FALSE
    /\ wr = IdleWriter
    /\ rd = [t \in Readers |-> IdleReader]
    /\ sealed = FALSE
    /\ fatal = FALSE
    /\ ws = [t \in Writers |-> [pc |-> "start", params |-> <<>>, err |-> NoError]]

\* ------------------------------------------------------------- Register

\* The contents of hdPrivToPubKeyIDs: each key with the bytes its slice holds.
HDMap ==
    [k \in DOMAIN hdPrivToPubKeyIDs |-> registered[hdPrivToPubKeyIDs[k]].HDPublicKeyID]

\* The contents of the five maps.
Contents ==
    <<registeredNets, pubKeyHashAddrIDs, scriptHashAddrIDs, bech32SegwitPrefixes, HDMap>>

\* The duplicate check left out.
NeverDuplicate(params) == FALSE

\* The duplicate check made on the whole profile instead of its magic.
SameParamsRegistered(params) == \E i \in DOMAIN registered : registered[i] = params

\* _, ok := registeredNets[params.Net]
IsDuplicateNet(params) == params.Net \in registeredNets

\* The set of magics replaced instead of extended.
OnlyNet(params) == {params.Net}

\* registeredNets[params.Net] = struct{}{}
InsertNet(params) == registeredNets \cup {params.Net}

\* The set replaced instead of extended.
OnlyPubKeyHashAddrID(params) == {params.PubKeyHashAddrID}

\* pubKeyHashAddrIDs[params.PubKeyHashAddrID] = struct{}{}
InsertPubKeyHashAddrID(params) == pubKeyHashAddrIDs \cup {params.PubKeyHashAddrID}

\* The pubkey-hash ID stored where the script-hash ID belongs.
InsertPubKeyHashAsScriptHash(params) == scriptHashAddrIDs \cup {params.PubKeyHashAddrID}

\* scriptHashAddrIDs[params.ScriptHashAddrID] = struct{}{}
InsertScriptHashAddrID(params) == scriptHashAddrIDs \cup {params.ScriptHashAddrID}

\* An existing entry kept instead of overwritten.
InsertHDKeyIDIfAbsent(params) ==
    IF params.HDPrivateKeyID \in DOMAIN hdPrivToPubKeyIDs
    THEN hdPrivToPubKeyIDs
    ELSE MapPut(hdPrivToPubKeyIDs, params.HDPrivateKeyID, Len(registered) + 1)

\* The entry stored under the public ID instead of the private one.
InsertHDKeyIDByPublic(params) ==
    MapPut(hdPrivToPubKeyIDs, params.HDPublicKeyID, Len(registered) + 1)

\* hdPrivToPubKeyIDs[params.HDPrivateKeyID] = params.HDPublicKeyID[:]
\* (the slice refers to the array of the object params points to, which is
\* registered[Len(registered) + 1] once the call has returned).
InsertHDKeyID(params) ==
    MapPut(hdPrivToPubKeyIDs, params.HDPrivateKeyID, Len(registered) + 1)

\* The human-readable part stored without the separator.
InsertBech32HRP(params) == bech32SegwitPrefixes \cup {params.Bech32HRPSegwit}

\* bech32SegwitPrefixes[params.Bech32HRPSegwit+"1"] = struct{}{}
InsertBech32Prefix(params) ==
    bech32SegwitPrefixes \cup {Append(params.Bech32HRPSegwit, 49)}

\* Register(params *Params) error.
Register(params) ==
    /\ again' = (call.op = "Register" /\ call.arg = params /\ call.err = NoError)
    /\ IF IsDuplicateNet(params)
       THEN /\ call' = [op |-> "Register", arg |-> params, ret |-> <<>>,
                        err |-> ErrDuplicateNet]
            /\ UNCHANGED <<indices, registered>>
       ELSE /\ registeredNets' = InsertNet(params)
            /\ pubKeyHashAddrIDs' = InsertPubKeyHashAddrID(params)
            /\ scriptHashAddrIDs' = InsertScriptHashAddrID(params)
            /\ hdPrivToPubKeyIDs' = InsertHDKeyID(params)
            /\ bech32SegwitPrefixes' = InsertBech32Prefix(params)
            /\ registered' = Append(registered, params)
            /\ call' = [op |-> "Register", arg |-> params, ret |-> <<>>, err |-> NoError]

\* The error of Register dropped: mustRegister returns in every case.
mustRegisterNoPanic(params) ==
    /\ Register(params)
    /\ panicked' = FALSE

\* mustRegister(params): Register, and panic on an error.
mustRegister(params) ==
    /\ Register(params)
    /\ panicked' = (call'.err # NoError)

\* init(): the next mustRegister statement of the package initializer.
InitStep ==
    /\ ~panicked
    /\ initPos < Len(InitOrder)
    /\ mustRegister(InitOrder[initPos + 1])
    /\ initPos' = initPos + 1
    /\ UNCHANGED conc

\* The package is initialized: callers may use its exported functions.
Running == ~panicked /\ initPos = Len(InitOrder)

\* The exported function panicking on an error as mustRegister does.
CallRegisterPanicking ==
    /\ Running
    /\ \E params \in InputParams : mustRegister(params)
    /\ UNCHANGED <<initPos, conc>>

\* A caller registers a network.
CallRegister ==
    /\ Running
    /\ \E params \in InputParams : Register(params)
    /\ UNCHANGED <<initPos, panicked, conc>>

\* -------------------------------------------------------------- lookups

IsPubKeyHashAddrID(id) == id \in pubKeyHashAddrIDs

\* The wrong map consulted.
IsScriptHashAddrIDFromPubKeyHash(id) == id \in pubKeyHashAddrIDs

IsScriptHashAddrID(id) == id \in scriptHashAddrIDs

\* The prefix looked up as given.
IsBech32SegwitPrefixNoFold(prefix) == prefix \in bech32SegwitPrefixes

IsBech32SegwitPrefix(prefix) == ToLower(prefix) \in bech32SegwitPrefixes

\* What the lookup would do without its length check: copy(key[:], id) copies
\* the first four bytes and leaves the rest of key zero.
HDPrivateKeyToPublicKeyIDNoLengthCheck(id) ==
    LET key == [i \in 1..4 |-> IF i <= Len(id) THEN id[i] ELSE 0]
    IN  IF key \notin DOMAIN hdPrivToPubKeyIDs
        THEN [ret |-> <<>>, err |-> ErrUnknownHDKeyID]
        ELSE [ret |-> registered[hdPrivToPubKeyIDs[key]].HDPublicKeyID,
              err |-> NoError]

HDPrivateKeyToPublicKeyID(id) ==
    IF Len(id) # 4
    THEN [ret |-> <<>>, err |-> ErrUnknownHDKeyID]
    ELSE LET key == [i \in 1..4 |-> id[i]]
         IN  IF key \notin DOMAIN hdPrivToPubKeyIDs
             THEN [ret |-> <<>>, err |-> ErrUnknownHDKeyID]
             ELSE [ret |-> registered[hdPrivToPubKeyIDs[key]].HDPublicKeyID,
                   err |-> NoError]

\* The lookup written as an index expression that stores what it asks for.
CallIsPubKeyHashAddrIDStoring ==
    /\ Running
    /\ \E id \in InputIDs :
           /\ call' = [op |-> "IsPubKeyHashAddrID", arg |-> id,
                        ret |-> IsPubKeyHashAddrID(id), err |-> NoError]
           /\ pubKeyHashAddrIDs' = pubKeyHashAddrIDs \cup {id}
    /\ again' = FALSE
    /\ UNCHANGED <<registeredNets, scriptHashAddrIDs, bech32SegwitPrefixes,
                   hdPrivToPubKeyIDs, registered, initPos, panicked, conc>>

CallIsPubKeyHashAddrID ==
    /\ Running
    /\ \E id \in InputIDs :
           call' = [op |-> "IsPubKeyHashAddrID", arg |-> id,
                    ret |-> IsPubKeyHashAddrID(id), err |-> NoError]
    /\ again' = FALSE
    /\ UNCHANGED <<indices, registered, initPos, panicked, conc>>

CallIsScriptHashAddrID ==
    /\ Running
    /\ \E id \in InputIDs :
           call' = [op |-> "IsScriptHashAddrID", arg |-> id,
                    ret |-> IsScriptHashAddrID(id), err |-> NoError]
    /\ again' = FALSE
    /\ UNCHANGED <<indices, registered, initPos, panicked, conc>>

CallIsBech32SegwitPrefix ==
    /\ Running
    /\ \E prefix \in InputPrefixes :
           call' = [op |-> "IsBech32SegwitPrefix", arg |-> prefix,
                    ret |-> IsBech32SegwitPrefix(prefix), err |-> NoError]
    /\ again' = FALSE
    /\ UNCHANGED <<indices, registered, initPos, panicked, conc>>

CallHDPrivateKeyToPublicKeyID ==
    /\ Running
    /\ \E id \in InputKeys :
           LET r == HDPrivateKeyToPublicKeyID(id)
           IN  call' = [op |-> "HDPrivateKeyToPublicKeyID", arg |-> id,
                        ret |-> r.ret, err |-> r.err]
    /\ again' = FALSE
    /\ UNCHANGED <<indices, registered, initPos, panicked, conc>>

\* The bytes a caller stores into a slice it was handed.
WrittenBytes == {0, 255}

\* A caller stores a byte into the first element of the slice the last
\* HDPrivateKeyToPublicKeyID call returned.  That slice is pubBytes, the map's
\* value, which Register made from params.HDPublicKeyID[:]: it shares its
\* array with the HDPublicKeyID field of the registered object.
OverwriteResult ==
    /\ Running
    /\ call.op = "HDPrivateKeyToPublicKeyID"
    /\ call.err = NoError
    /\ \E b \in WrittenBytes :
           LET i == hdPrivToPubKeyIDs[call.arg]
               bytes == [registered[i].HDPublicKeyID EXCEPT ![1] = b]
           IN  /\ registered' = [registered EXCEPT ![i].HDPublicKeyID = bytes]
               /\ call' = [op |-> "OverwriteResult", arg |-> call.arg, ret |-> bytes,
                           err |-> NoError]
    /\ again' = FALSE
    /\ UNCHANGED <<indices, initPos, panicked, conc>>

\* ---------------------------------------------------------- specification

Next ==
    \/ InitStep
    \/ CallRegister
    \/ CallIsPubKeyHashAddrID
    \/ CallIsScriptHashAddrID
    \/ CallIsBech32SegwitPrefix
    \/ CallHDPrivateKeyToPublicKeyID

Spec == Init /\ [][Next]_vars

\* mustRegister is unexported: init() is its only caller, and there it never
\* fails.  To see its failure path, code of the package (a test, a further
\* init statement) calls it with any profile once init() has returned.
CallMustRegister ==
    /\ Running
    /\ \E params \in InputParams : mustRegister(params)
    /\ UNCHANGED <<initPos, conc>>

NextMust ==
    \/ InitStep
    \/ CallMustRegister

SpecMust == Init /\ [][NextMust]_vars

\* Callers that look up HD key IDs and write into the slices they get back.
NextAlias ==
    \/ InitStep
    \/ CallHDPrivateKeyToPublicKeyID
    \/ OverwriteResult

SpecAlias == Init /\ [][NextAlias]_vars

\* ------------------------------------------------------------ goroutines

\* Register and the lookups take no lock, so goroutines calling them run
\* statement by statement in any order.  init() has returned before any of
\* them starts.

\* The profiles the registering goroutine passes: a new network, and one whose
\* magic is taken.
ConcParams == {CustomParams, MainNetParams}

\* The lookups the reading goroutines make: the four entries of the new
\* network (its prefix in upper case), and one entry of a default network.
ConcLookups ==
    {<<"IsPubKeyHashAddrID", CustomParams.PubKeyHashAddrID>>,
     <<"IsScriptHashAddrID", CustomParams.ScriptHashAddrID>>,
     <<"IsBech32SegwitPrefix", <<88, 89, 90, 49>>>>,
     <<"HDPrivateKeyToPublicKeyID", CustomParams.HDPrivateKeyID>>,
     <<"IsPubKeyHashAddrID", MainNetParams.PubKeyHashAddrID>>}

\* What the lookup op returns for arg in the current state.
LookupResult(op, arg) ==
    CASE op = "IsPubKeyHashAddrID" -> [ret |-> IsPubKeyHashAddrID(arg), err |-> NoError]
      [] op = "IsScriptHashAddrID" -> [ret |-> IsScriptHashAddrID(arg), err |-> NoError]
      [] op = "IsBech32SegwitPrefix" -> [ret |-> IsBech32SegwitPrefix(arg), err |-> NoError]
      [] op = "HDPrivateKeyToPublicKeyID" -> HDPrivateKeyToPublicKeyID(arg)

\* A goroutine calls Register(params); the write phase is not over.
RegisterCall ==
    /\ Running
    /\ ~fatal
    /\ ~sealed
    /\ wr.pc = "idle"
    /\ \E params \in ConcParams :
           wr' = [pc |-> "L714", params |-> params, n |-> Len(registered)]
    /\ UNCHANGED <<indices, registered, initPos, panicked, call, again, rd, sealed, fatal, ws>>

\* Register returning as soon as the pubkey-hash ID is stored.
NextLineReturnEarly(pc) ==
    CASE pc = "L717" -> "L718"
      [] pc = "L718" -> "L725"
      [] pc = "L719" -> "L720"
      [] pc = "L720" -> "L724"
      [] pc = "L724" -> "L725"

\* The statement of Register that follows the map write at line pc.
NextLine(pc) ==
    CASE pc = "L717" -> "L718"
      [] pc = "L718" -> "L719"
      [] pc = "L719" -> "L720"
      [] pc = "L720" -> "L724"
      [] pc = "L724" -> "L725"

\* The goroutine in Register executes the statement it is at.  The object
\* params points to joins registered when the HD map begins to refer to it.
RegisterStatement ==
    /\ ~fatal
    /\ LET params == wr.params
       IN  \/ /\ wr.pc = "L714"
              /\ wr' = IF IsDuplicateNet(params)
                       THEN IdleWriter
                       ELSE [wr EXCEPT !.pc = "L717"]
              /\ UNCHANGED <<indices, registered>>
           \/ /\ wr.pc = "L717"
              /\ registeredNets' = InsertNet(params)
              /\ wr' = [wr EXCEPT !.pc = NextLine(wr.pc)]
              /\ UNCHANGED <<pubKeyHashAddrIDs, scriptHashAddrIDs, bech32SegwitPrefixes,
                             hdPrivToPubKeyIDs, registered>>
           \/ /\ wr.pc = "L718"
              /\ pubKeyHashAddrIDs' = InsertPubKeyHashAddrID(params)
              /\ wr' = [wr EXCEPT !.pc = NextLine(wr.pc)]
              /\ UNCHANGED <<registeredNets, scriptHashAddrIDs, bech32SegwitPrefixes,
                             hdPrivToPubKeyIDs, registered>>
           \/ /\ wr.pc = "L719"
              /\ scriptHashAddrIDs' = InsertScriptHashAddrID(params)
              /\ wr' = [wr EXCEPT !.pc = NextLine(wr.pc)]
              /\ UNCHANGED <<registeredNets, pubKeyHashAddrIDs, bech32SegwitPrefixes,
                             hdPrivToPubKeyIDs, registered>>
           \/ /\ wr.pc = "L720"
              /\ hdPrivToPubKeyIDs' = InsertHDKeyID(params)
              /\ registered' = Append(registered, params)
              /\ wr' = [wr EXCEPT !.pc = NextLine(wr.pc)]
              /\ UNCHANGED <<registeredNets, pubKeyHashAddrIDs, scriptHashAddrIDs,
                             bech32SegwitPrefixes>>
           \/ /\ wr.pc = "L724"
              /\ bech32SegwitPrefixes' = InsertBech32Prefix(params)
              /\ wr' = [wr EXCEPT !.pc = NextLine(wr.pc)]
              /\ UNCHANGED <<registeredNets, pubKeyHashAddrIDs, scriptHashAddrIDs,
                             hdPrivToPubKeyIDs, registered>>
           \/ /\ wr.pc = "L725"
              /\ wr' = IdleWriter
              /\ UNCHANGED <<indices, registered>>
    /\ UNCHANGED <<initPos, panicked, call, again, rd, sealed, fatal, ws>>

\* The write phase declared over while a Register call may still be running.
WritesCompleteEarly ==
    /\ Running
    /\ ~fatal
    /\ ~sealed
    /\ sealed' = TRUE
    /\ UNCHANGED <<indices, registered, initPos, panicked, call, again, wr, rd, fatal, ws>>

\* The write phase ends: every Register call has returned and no other will
\* be made; goroutines started from here on see all that Register wrote.
WritesComplete ==
    /\ Running
    /\ ~fatal
    /\ ~sealed
    /\ wr.pc = "idle"
    /\ sealed' = TRUE
    /\ UNCHANGED <<indices, registered, initPos, panicked, call, again, wr, rd, fatal, ws>>

\* A goroutine calls a lookup.
LookupCall ==
    /\ Running
    /\ ~fatal
    /\ \E t \in Readers, l \in ConcLookups :
           /\ rd[t].pc = "idle"
           /\ rd' = [rd EXCEPT ![t] = [pc |-> "called", op |-> l[1], arg |-> l[2],
                                       ret |-> <<>>, err |-> NoError]]
    /\ UNCHANGED <<indices, registered, initPos, panicked, call, again, wr, sealed, fatal, ws>>

\* A map read made now is concurrent with the map writes of a Register call
\* (lines 717-724) that has passed its duplicate check and has not returned:
\* nothing orders the two goroutines.
Racing == wr.pc \in {"L717", "L718", "L719", "L720", "L724", "L725"}

\* The profiles registered before the running Register call was made.
OldParams == {registered[i] : i \in 1..wr.n}

\* What the lookup returns if it sees none of the writes of the running
\* Register call.
StaleResult(op, arg) ==
    CASE op = "IsPubKeyHashAddrID"
           -> [ret |-> arg \in {p.PubKeyHashAddrID : p \in OldParams}, err |-> NoError]
      [] op = "IsScriptHashAddrID"
           -> [ret |-> arg \in {p.ScriptHashAddrID : p \in OldParams}, err |-> NoError]
      [] op = "IsBech32SegwitPrefix"
           -> [ret |-> ToLower(arg) \in {Append(p.Bech32HRPSegwit, 49) : p \in OldParams},
               err |-> NoError]
      [] op = "HDPrivateKeyToPublicKeyID"
           -> LET is == {i \in 1..wr.n : registered[i].HDPrivateKeyID = arg}
              IN  IF is = {}
                  THEN [ret |-> <<>>, err |-> ErrUnknownHDKeyID]
                  ELSE [ret |-> registered[CHOOSE i \in is : \A j \in is : j <= i].HDPublicKeyID,
                        err |-> NoError]

\* The map read of a lookup.  A read that races with Register's writes is a
\* data race: it returns what the map holds now or what it held before the
\* call (or ends the process: LookupFatal).
LookupMapRead ==
    /\ ~fatal
    /\ \E t \in Readers :
           /\ rd[t].pc = "called"
           /\ \E r \in {LookupResult(rd[t].op, rd[t].arg)}
                          \cup (IF Racing THEN {StaleResult(rd[t].op, rd[t].arg)} ELSE {}) :
                  rd' = [rd EXCEPT ![t] = [@ EXCEPT !.pc = "read", !.ret = r.ret,
                                                    !.err = r.err]]
    /\ UNCHANGED <<indices, registered, initPos, panicked, call, again, wr, sealed, fatal, ws>>

\* The runtime detects the racing map read: "fatal error: concurrent map read
\* and map write".
LookupFatal ==
    /\ ~fatal
    /\ Racing
    /\ \E t \in Readers : rd[t].pc = "called"
    /\ fatal' = TRUE
    /\ UNCHANGED <<indices, registered, initPos, panicked, call, again, wr, rd, sealed, ws>>

\* The lookup returns what it read.
LookupReturn ==
    /\ ~fatal
    /\ \E t \in Readers :
           /\ rd[t].pc = "read"
           /\ rd' = [rd EXCEPT ![t] = IdleReader]
    /\ UNCHANGED <<indices, registered, initPos, panicked, call, again, wr, sealed, fatal, ws>>

NextConc ==
    \/ InitStep
    \/ RegisterCall
    \/ RegisterStatement
    \/ WritesComplete
    \/ LookupCall
    \/ LookupMapRead
    \/ LookupFatal
    \/ LookupReturn

SpecConc == Init /\ [][NextConc]_vars

\* ---------------------------------------------- concurrent registration

\* The profiles the two goroutines pass: the same new magic, with different
\* pubkey-hash IDs and HD public IDs.
RaceParams ==
    {CustomParams,
     [CustomParams EXCEPT !.PubKeyHashAddrID = 32, !.HDPublicKeyID = <<9, 10, 11, 12>>]}

\* A goroutine calls Register(params).
RaceCall ==
    /\ Running
    /\ ~fatal
    /\ \E t \in Writers, params \in RaceParams :
           /\ ws[t].pc = "start"
           /\ ws' = [ws EXCEPT ![t] = [pc |-> "L714", params |-> params, err |-> NoError]]
    /\ UNCHANGED <<indices, registered, initPos, panicked, call, again, wr, rd, sealed,
                   fatal>>

\* A goroutine executes the statement of Register it is at.
RaceStatement ==
    /\ ~fatal
    /\ \E t \in Writers :
           LET params == ws[t].params
               goto(pc) == [ws EXCEPT ![t].pc = pc]
           IN  \/ /\ ws[t].pc = "L714"
                  /\ ws' = IF IsDuplicateNet(params)
                           THEN [ws EXCEPT ![t].pc = "done", ![t].err = ErrDuplicateNet]
                           ELSE goto("L717")
                  /\ UNCHANGED <<indices, registered>>
               \/ /\ ws[t].pc = "L717"
                  /\ registeredNets' = InsertNet(params)
                  /\ ws' = goto(NextLine(ws[t].pc))
                  /\ UNCHANGED <<pubKeyHashAddrIDs, scriptHashAddrIDs, bech32SegwitPrefixes,
                                 hdPrivToPubKeyIDs, registered>>
               \/ /\ ws[t].pc = "L718"
                  /\ pubKeyHashAddrIDs' = InsertPubKeyHashAddrID(params)
                  /\ ws' = goto(NextLine(ws[t].pc))
                  /\ UNCHANGED <<registeredNets, scriptHashAddrIDs, bech32SegwitPrefixes,
                                 hdPrivToPubKeyIDs, registered>>
               \/ /\ ws[t].pc = "L719"
                  /\ scriptHashAddrIDs' = InsertScriptHashAddrID(params)
                  /\ ws' = goto(NextLine(ws[t].pc))
                  /\ UNCHANGED <<registeredNets, pubKeyHashAddrIDs, bech32SegwitPrefixes,
                                 hdPrivToPubKeyIDs, registered>>
               \/ /\ ws[t].pc = "L720"
                  /\ hdPrivToPubKeyIDs' = InsertHDKeyID(params)
                  /\ registered' = Append(registered, params)
                  /\ ws' = goto(NextLine(ws[t].pc))
                  /\ UNCHANGED <<registeredNets, pubKeyHashAddrIDs, scriptHashAddrIDs,
                                 bech32SegwitPrefixes>>
               \/ /\ ws[t].pc = "L724"
                  /\ bech32SegwitPrefixes' = InsertBech32Prefix(params)
                  /\ ws' = goto(NextLine(ws[t].pc))
                  /\ UNCHANGED <<registeredNets, pubKeyHashAddrIDs, scriptHashAddrIDs,
                                 hdPrivToPubKeyIDs, registered>>
               \/ /\ ws[t].pc = "L725"
                  /\ ws' = [ws EXCEPT ![t].pc = "done", ![t].err = NoError]
                  /\ UNCHANGED <<indices, registered>>
    /\ UNCHANGED <<initPos, panicked, call, again, wr, rd, sealed, fatal>>

\* A goroutine is about to write a map while the other is between its
\* duplicate check and its last map write: unsynchronised accesses to the same
\* maps, which the runtime may detect ("fatal error: concurrent map writes",
\* "concurrent map read and map write").
RaceFatal ==
    /\ ~fatal
    /\ \E t \in Writers, u \in Writers :
           /\ t # u
           /\ ws[t].pc \in {"L717", "L718", "L719", "L720", "L724"}
           /\ ws[u].pc \in {"L714", "L717", "L718", "L719", "L720", "L724"}
    /\ fatal' = TRUE
    /\ UNCHANGED <<indices, registered, initPos, panicked, call, again, wr, rd, sealed, ws>>

NextRace ==
    \/ InitStep
    \/ RaceCall
    \/ RaceStatement
    \/ RaceFatal

SpecRace == Init /\ [][NextRace]_vars

\* ------------------------------------------------------------ the claims

\* The Params objects whose Register call succeeded.
RegisteredParams == {registered[i] : i \in DOMAIN registered}

\* C1: Registration exclusivity.  A Register(p) call made while p.Net is not
\* registered returns no error, and a second Register(p) made right after a
\* successful one returns ErrDuplicateNet and leaves the contents of all five
\* indices exactly as the first call left them.
C1_RegistrationExclusivity ==
    [][ /\ (call'.op = "Register" /\ call'.arg.Net \notin registeredNets)
              => call'.err = NoError
        /\ (/\ call.op = "Register"
            /\ call.err = NoError
            /\ call'.op = "Register"
            /\ call'.arg = call.arg)
              => (call'.err = ErrDuplicateNet /\ Contents' = Contents)
      ]_vars

\* C1 witness: a caller's Register(p) has just failed as the repeat of a
\* Register(p) that succeeded.
C1_Witness ==
    /\ again
    /\ call.op = "Register"
    /\ call.arg.Net \in CustomNets
    /\ call.err = ErrDuplicateNet

\* C2: All-or-nothing on a duplicate magic.  Register(q) called while q.Net is
\* registered returns ErrDuplicateNet and changes the contents of no index,
\* whatever q's other fields are; called while q.Net is not registered it
\* succeeds, whatever q's other fields are.
C2_AllOrNothing ==
    [][ call'.op = "Register" =>
            IF call'.arg.Net \in registeredNets
            THEN call'.err = ErrDuplicateNet /\ Contents' = Contents
            ELSE call'.err = NoError
      ]_vars

\* C2 witness: a Register(q) has failed where q carries a registered magic but
\* differs from the profile registered under it, and none of q's address ID,
\* prefix or HD key is in the indices.
C2_Witness ==
    /\ call.op = "Register"
    /\ call.err = ErrDuplicateNet
    /\ call.arg \notin RegisteredParams
    /\ call.arg.PubKeyHashAddrID \notin pubKeyHashAddrIDs
    /\ call.arg.ScriptHashAddrID \notin scriptHashAddrIDs
    /\ Append(call.arg.Bech32HRPSegwit, 49) \notin bech32SegwitPrefixes
    /\ call.arg.HDPrivateKeyID \notin DOMAIN hdPrivToPubKeyIDs

\* C3: Effect of a successful Register(p).  Each of the four sets gains exactly
\* p's element, the HD map gains or overwrites exactly the entry
\* p.HDPrivateKeyID -> p.HDPublicKeyID, and the registered objects, p included,
\* hold the values they were given.
C3_RegisterEffect ==
    [][ (call'.op = "Register" /\ call'.err = NoError /\ call'.arg.Net \notin registeredNets) =>
            LET p == call'.arg
            IN  /\ registeredNets' = registeredNets \cup {p.Net}
                /\ pubKeyHashAddrIDs' = pubKeyHashAddrIDs \cup {p.PubKeyHashAddrID}
                /\ scriptHashAddrIDs' = scriptHashAddrIDs \cup {p.ScriptHashAddrID}
                /\ bech32SegwitPrefixes' =
                       bech32SegwitPrefixes \cup {p.Bech32HRPSegwit \o <<49>>}
                /\ DOMAIN HDMap' = (DOMAIN HDMap) \cup {p.HDPrivateKeyID}
                /\ HDMap'[p.HDPrivateKeyID] = p.HDPublicKeyID
                /\ \A k \in (DOMAIN HDMap) \ {p.HDPrivateKeyID} : HDMap'[k] = HDMap[k]
                /\ registered' = registered \o <<p>>
      ]_vars

\* C3 witness: a caller's profile has just been registered on top of the
\* built-in ones, with a pubkey-hash ID that was already there and an HD key
\* that was not.
C3_Witness ==
    /\ call.op = "Register"
    /\ call.err = NoError
    /\ Len(registered) > Len(InitOrder)
    /\ call.arg = registered[Len(registered)]
    /\ call.arg.PubKeyHashAddrID = MainNetParams.PubKeyHashAddrID
    /\ call.arg.HDPrivateKeyID = CustomParams.HDPrivateKeyID

\* C4: Address-ID soundness.  For every profile p whose Register call
\* succeeded, IsPubKeyHashAddrID(p.PubKeyHashAddrID) and
\* IsScriptHashAddrID(p.ScriptHashAddrID) are true.
C4_AddrIDSoundness ==
    \A p \in RegisteredParams :
        /\ IsPubKeyHashAddrID(p.PubKeyHashAddrID)
        /\ IsScriptHashAddrID(p.ScriptHashAddrID)

\* C4 witness: the four built-in profiles and two profiles of callers are
\* registered, one of them with IDs no built-in profile uses.
C4_Witness ==
    /\ Len(registered) = Len(InitOrder) + 2
    /\ \E p \in RegisteredParams :
           /\ p.PubKeyHashAddrID = CustomParams.PubKeyHashAddrID
           /\ p.ScriptHashAddrID = CustomParams.ScriptHashAddrID

\* C5: Union semantics.  For every byte id, IsPubKeyHashAddrID(id) is true iff
\* some successfully registered profile has that PubKeyHashAddrID, and
\* IsScriptHashAddrID(id) is true iff some successfully registered profile has
\* that ScriptHashAddrID.
C5_UnionSemantics ==
    \A id \in Byte :
        /\ IsPubKeyHashAddrID(id) <=> \E p \in RegisteredParams : p.PubKeyHashAddrID = id
        /\ IsScriptHashAddrID(id) <=> \E p \in RegisteredParams : p.ScriptHashAddrID = id

\* C5 witness: a Register call has failed for a profile whose pubkey-hash ID no
\* registered profile has, and that ID is not recognised, while a caller's
\* profile is registered.
C5_Witness ==
    /\ call.op = "Register"
    /\ call.err = ErrDuplicateNet
    /\ ~IsPubKeyHashAddrID(call.arg.PubKeyHashAddrID)
    /\ Len(registered) > Len(InitOrder)

\* Four-byte values HDPrivateKeyToPublicKeyID is asked about: the four-byte
\* inputs, and the public IDs of the profiles.
FourByteIDs ==
    {k \in InputKeys : Len(k) = 4} \cup {p.HDPublicKeyID : p \in InputParams}

\* The registered object that was the last to be registered with the
\* HDPrivateKeyID of registered[i].
LastWithKeyOf(i) ==
    CHOOSE j \in DOMAIN registered :
        /\ registered[j].HDPrivateKeyID = registered[i].HDPrivateKeyID
        /\ \A l \in DOMAIN registered :
               registered[l].HDPrivateKeyID = registered[i].HDPrivateKeyID => l <= j

\* HDPrivateKeyToPublicKeyID answers ErrUnknownHDKeyID for every four-byte value
\* that is the HDPrivateKeyID of no registered profile.
UnknownKeysFail ==
    \A id \in FourByteIDs :
        (\A p \in RegisteredParams : p.HDPrivateKeyID # id)
            => HDPrivateKeyToPublicKeyID(id) = [ret |-> <<>>, err |-> ErrUnknownHDKeyID]

\* C6 as stated: for every registered profile p the lookup of p.HDPrivateKeyID
\* returns exactly p.HDPublicKeyID and no error, also when registered profiles
\* share an HDPrivateKeyID; every other four-byte value gives ErrUnknownHDKeyID.
C6_Original ==
    /\ \A p \in RegisteredParams :
           HDPrivateKeyToPublicKeyID(p.HDPrivateKeyID)
               = [ret |-> p.HDPublicKeyID, err |-> NoError]
    /\ UnknownKeysFail

\* C6 amended: for every registered profile p the lookup of p.HDPrivateKeyID
\* returns, with no error, the HDPublicKeyID of the profile registered last
\* among those with p's HDPrivateKeyID (p's own unless a later profile reused
\* the key); every other four-byte value gives ErrUnknownHDKeyID.
C6_HDRoundTrip ==
    /\ \A i \in DOMAIN registered :
           HDPrivateKeyToPublicKeyID(registered[i].HDPrivateKeyID)
               = [ret |-> registered[LastWithKeyOf(i)].HDPublicKeyID, err |-> NoError]
    /\ UnknownKeysFail

\* C6 witness: two registered profiles share an HDPrivateKeyID and differ in
\* their HDPublicKeyID, and the lookup of that key has just returned.
C6_Witness ==
    /\ call.op = "HDPrivateKeyToPublicKeyID"
    /\ call.err = NoError
    /\ \E p, q \in RegisteredParams :
           /\ p.HDPrivateKeyID = call.arg
           /\ q.HDPrivateKeyID = call.arg
           /\ p.HDPublicKeyID # q.HDPublicKeyID

\* C7: HD lookup length check.  For every input whose length is not four,
\* HDPrivateKeyToPublicKeyID returns ErrUnknownHDKeyID and a nil slice, also
\* when the first four bytes are a registered key.
C7_HDLengthCheck ==
    /\ \A id \in InputKeys :
           Len(id) # 4
               => HDPrivateKeyToPublicKeyID(id) = [ret |-> <<>>, err |-> ErrUnknownHDKeyID]
    /\ (call.op = "HDPrivateKeyToPublicKeyID" /\ Len(call.arg) # 4)
           => (call.ret = <<>> /\ call.err = ErrUnknownHDKeyID)

\* C7 witness: the lookup has been called with more than four bytes of which
\* the first four are a registered key.
C7_Witness ==
    /\ call.op = "HDPrivateKeyToPublicKeyID"
    /\ Len(call.arg) > 4
    /\ SubSeq(call.arg, 1, 4) \in DOMAIN hdPrivToPubKeyIDs
    /\ call.err = ErrUnknownHDKeyID

\* The prefixes the bech32 claims are checked on: the ones the callers try,
\* the human-readable parts of the registered profiles, bare and with "1", and
\* the stored prefixes.
Prefixes ==
    InputPrefixes \cup bech32SegwitPrefixes
        \cup {p.Bech32HRPSegwit : p \in RegisteredParams}
        \cup {p.Bech32HRPSegwit \o <<49>> : p \in RegisteredParams}

\* C8 as stated: for every registered profile p, of whatever letter case its
\* human-readable part h is, IsBech32SegwitPrefix is true for h + "1" and for
\* every string that differs from h + "1" only in the case of its letters.
C8_CaseInsensitiveRecognition ==
    \A p \in RegisteredParams :
        \A q \in CaseVariants(p.Bech32HRPSegwit \o <<49>>) : IsBech32SegwitPrefix(q)

\* C9: IsBech32SegwitPrefix is case-insensitive in its argument.  Two prefixes
\* that differ only in the case of their letters get the same answer, and the
\* answer is true exactly when the set holds the prefix with every upper-case
\* letter replaced by its lower-case letter.
C9_CaseInsensitiveArgument ==
    \A q \in Prefixes :
        /\ \A r \in CaseVariants(q) : IsBech32SegwitPrefix(r) = IsBech32SegwitPrefix(q)
        /\ IsBech32SegwitPrefix(q) <=>
               \E x \in bech32SegwitPrefixes :
                   /\ Len(x) = Len(q)
                   /\ \A i \in 1..Len(q) :
                          x[i] = IF q[i] \in 65..90 THEN q[i] + 32 ELSE q[i]

\* C9 witness: a prefix with upper-case letters has been recognised.
C9_Witness ==
    /\ call.op = "IsBech32SegwitPrefix"
    /\ \E i \in 1..Len(call.arg) : call.arg[i] \in 65..90
    /\ call.ret = TRUE

\* Every stored prefix is the human-readable part of a registered profile
\* followed by "1".
StoredWithSeparator ==
    bech32SegwitPrefixes = {p.Bech32HRPSegwit \o <<49>> : p \in RegisteredParams}

\* A prefix that does not end in "1" is not recognised.
SeparatorRequired ==
    \A q \in Prefixes : (q = <<>> \/ q[Len(q)] # 49) => ~IsBech32SegwitPrefix(q)

\* C10 as stated: every stored prefix is a registered human-readable part
\* followed by "1", so the bare human-readable part of a registered profile is
\* not recognised, and no prefix that does not end in "1" is.
C10_Original ==
    /\ StoredWithSeparator
    /\ \A p \in RegisteredParams : ~IsBech32SegwitPrefix(p.Bech32HRPSegwit)
    /\ SeparatorRequired

\* C10 amended: every stored prefix is a registered human-readable part
\* followed by "1"; the bare human-readable part h of a registered profile is
\* recognised only if h in lower case is itself a registered human-readable
\* part followed by "1" (so never when h does not end in "1", as for "eac");
\* and no prefix that does not end in "1" is recognised.
C10_SeparatorRequired ==
    /\ StoredWithSeparator
    /\ \A p \in RegisteredParams :
           IsBech32SegwitPrefix(p.Bech32HRPSegwit) <=>
               \E q \in RegisteredParams :
                   ToLower(p.Bech32HRPSegwit) = q.Bech32HRPSegwit \o <<49>>
    /\ SeparatorRequired

\* C10 witness: IsBech32SegwitPrefix has been asked about the bare
\* human-readable part of a profile a caller registered, and has answered no.
C10_Witness ==
    /\ call.op = "IsBech32SegwitPrefix"
    /\ call.ret = FALSE
    /\ \E i \in DOMAIN registered :
           /\ i > Len(InitOrder)
           /\ registered[i].Bech32HRPSegwit = call.arg
           /\ call.arg # <<>>

\* The registry as the four built-in profiles and CustomParams leave it.
CustomOnBuiltins == registered = InitOrder \o <<CustomParams>>

\* Every lookup a built-in profile makes true is true.
BuiltinsRecognised ==
    \A i \in DOMAIN InitOrder :
        LET p == InitOrder[i]
        IN  /\ IsPubKeyHashAddrID(p.PubKeyHashAddrID)
            /\ IsScriptHashAddrID(p.ScriptHashAddrID)
            /\ IsBech32SegwitPrefix(p.Bech32HRPSegwit \o <<49>>)
            /\ HDPrivateKeyToPublicKeyID(p.HDPrivateKeyID)
                   = [ret |-> p.HDPublicKeyID, err |-> NoError]

\* C11: The custom-network scenario.  With the four built-in profiles
\* registered, Register of the profile with magic 0xAABBCCDD, PubKeyHashAddrID
\* 0x1F, HD keys 01020304 -> 05060708 and HRP "xyz" succeeds; then
\* IsPubKeyHashAddrID(0x1F) is true, HDPrivateKeyToPublicKeyID(01020304) is
\* 05060708, IsBech32SegwitPrefix("xyz1") is true, the lookups of the built-in
\* profiles are still true, and a Register with magic 0xAABBCCDD returns
\* ErrDuplicateNet.
C11_CustomScenario ==
    [][ /\ (registered = InitOrder /\ call'.op = "Register" /\ call'.arg = CustomParams)
             => /\ call'.err = NoError
                /\ IsPubKeyHashAddrID(31)'
                /\ HDPrivateKeyToPublicKeyID(<<1, 2, 3, 4>>)'
                       = [ret |-> <<5, 6, 7, 8>>, err |-> NoError]
                /\ IsBech32SegwitPrefix(<<120, 121, 122, 49>>)'
                /\ \A i \in DOMAIN InitOrder :
                       LET p == InitOrder[i]
                       IN  /\ IsPubKeyHashAddrID(p.PubKeyHashAddrID)
                                => IsPubKeyHashAddrID(p.PubKeyHashAddrID)'
                           /\ IsScriptHashAddrID(p.ScriptHashAddrID)
                                => IsScriptHashAddrID(p.ScriptHashAddrID)'
                           /\ IsBech32SegwitPrefix(p.Bech32HRPSegwit \o <<49>>)
                                => IsBech32SegwitPrefix(p.Bech32HRPSegwit \o <<49>>)'
                           /\ HDPrivateKeyToPublicKeyID(p.HDPrivateKeyID).err = NoError
                                => HDPrivateKeyToPublicKeyID(p.HDPrivateKeyID)'
                                       = HDPrivateKeyToPublicKeyID(p.HDPrivateKeyID)
        /\ (CustomOnBuiltins /\ call'.op = "Register" /\ call'.arg.Net = "0xAABBCCDD")
             => call'.err = ErrDuplicateNet
      ]_vars

\* C11 witness: the scenario's profile is registered on top of the built-in
\* ones and a second Register with its magic has failed.
C11_Witness ==
    /\ CustomOnBuiltins
    /\ BuiltinsRecognised
    /\ call.op = "Register"
    /\ call.arg.Net = "0xAABBCCDD"
    /\ call.err = ErrDuplicateNet

\* C12: Bootstrap.  Starting from the empty registry, init() registers
\* MainNetParams, TestNet4Params, RegressionNetParams and SimNetParams, in
\* this order and nothing else, through mustRegister; none of the four calls
\* panics, their four magics being pairwise distinct; and the registered
\* magics are then exactly those four.
C12_Bootstrap ==
    LET order == <<MainNetParams, TestNet4Params, RegressionNetParams, SimNetParams>>
    IN  /\ ~panicked
        /\ initPos <= 4
        /\ initPos = 0 => (registeredNets = {} /\ registered = <<>>)
        /\ initPos < 4 => registered = SubSeq(order, 1, initPos)
        /\ initPos = 4 => SubSeq(registered, 1, 4) = order
        /\ (initPos = 4 /\ Len(registered) = 4)
               => /\ registeredNets = {MainNet, TestNet4, TestNet, SimNet}
                  /\ Cardinality(registeredNets) = 4

\* C12 witness: init() has just returned from its fourth mustRegister.
C12_Witness ==
    /\ Running
    /\ Len(registered) = 4
    /\ call.op = "Register"
    /\ call.arg = SimNetParams
    /\ call.err = NoError

\* C13: Built-in networks count as already registered.  Once init() has
\* returned, Register of a built-in profile, or of any profile that carries a
\* built-in magic, returns ErrDuplicateNet and changes nothing.
C13_BuiltinsAreRegistered ==
    [][ (/\ Running
         /\ call'.op = "Register"
         /\ call'.arg.Net \in {MainNet, TestNet4, TestNet, SimNet})
            => /\ call'.err = ErrDuplicateNet
               /\ Contents' = Contents
               /\ registered' = registered
      ]_vars

\* C13 witness: a caller has called Register with its own profile under the
\* magic of the regression test network, and has got ErrDuplicateNet.
C13_Witness ==
    /\ Running
    /\ call.op = "Register"
    /\ call.arg = [CustomParams EXCEPT !.Net = TestNet]
    /\ call.err = ErrDuplicateNet
    /\ ~IsPubKeyHashAddrID(call.arg.PubKeyHashAddrID)

\* C14: mustRegister has exactly the effect of Register when Register
\* succeeds; when Register fails it panics and leaves every index unchanged;
\* after the panic nothing runs, so it never returns normally from a failure.
\* (Every step of SpecMust is a mustRegister call.)
C14_MustRegister ==
    [][ /\ ~panicked
        /\ call'.op = "Register"
        /\ LET params == call'.arg
           IN  IF params.Net \in registeredNets
               THEN /\ panicked'
                    /\ call'.err = ErrDuplicateNet
                    /\ Contents' = Contents
                    /\ registered' = registered
               ELSE /\ ~panicked'
                    /\ call'.err = NoError
                    /\ registeredNets' = registeredNets \cup {params.Net}
                    /\ pubKeyHashAddrIDs' = pubKeyHashAddrIDs \cup {params.PubKeyHashAddrID}
                    /\ scriptHashAddrIDs' = scriptHashAddrIDs \cup {params.ScriptHashAddrID}
                    /\ bech32SegwitPrefixes'
                           = bech32SegwitPrefixes \cup {Append(params.Bech32HRPSegwit, 49)}
                    /\ HDMap' = MapPut(HDMap, params.HDPrivateKeyID, params.HDPublicKeyID)
                    /\ registered' = Append(registered, params)
      ]_vars

\* C14 witness: mustRegister was called with a profile whose magic was
\* registered, and has panicked.
C14_Witness ==
    /\ panicked
    /\ initPos = Len(InitOrder)
    /\ call.op = "Register"
    /\ call.err = ErrDuplicateNet
    /\ call.arg.Net \in registeredNets
    /\ Len(registered) > Len(InitOrder)

\* The four lookups.
LookupOps ==
    {"IsPubKeyHashAddrID", "IsScriptHashAddrID", "IsBech32SegwitPrefix",
     "HDPrivateKeyToPublicKeyID"}

\* C15: Lookups are pure reads.  A lookup step, whether it succeeds or returns
\* an error, leaves the five maps (and the objects they refer to) as they
\* were, and the same call made again in the state it leaves returns what it
\* has just returned.
C15_LookupsArePureReads ==
    [][ call'.op \in LookupOps
            => /\ indices' = indices
               /\ registered' = registered
               /\ Contents' = Contents
               /\ [ret |-> call'.ret, err |-> call'.err]
                      = LookupResult(call'.op, call'.arg)
               /\ call'.op = "IsPubKeyHashAddrID"
                      => \A id \in InputIDs :
                             id = call'.arg => IsPubKeyHashAddrID(id)' = call'.ret
               /\ call'.op = "IsScriptHashAddrID"
                      => \A id \in InputIDs :
                             id = call'.arg => IsScriptHashAddrID(id)' = call'.ret
               /\ call'.op = "IsBech32SegwitPrefix"
                      => \A prefix \in InputPrefixes :
                             prefix = call'.arg
                                 => IsBech32SegwitPrefix(prefix)' = call'.ret
               /\ call'.op = "HDPrivateKeyToPublicKeyID"
                      => \A id \in InputKeys :
                             id = call'.arg
                                 => HDPrivateKeyToPublicKeyID(id)'
                                        = [ret |-> call'.ret, err |-> call'.err]
      ]_vars

\* C15 witness: with a custom network registered, the HD lookup has returned
\* its error for a key no profile has, and the maps hold what Register left.
C15_Witness ==
    /\ Len(registered) = Len(InitOrder) + 1
    /\ call.op = "HDPrivateKeyToPublicKeyID"
    /\ call.err = ErrUnknownHDKeyID
    /\ Len(call.arg) = 4
    /\ IsPubKeyHashAddrID(registered[Len(registered)].PubKeyHashAddrID)

\* C16: Read-phase safety.  Once every Register call has returned and no
\* other is made, the map read of every lookup, whichever goroutine makes it
\* and however the goroutines' steps interleave, yields what the lookup
\* returns when called alone in that state; no step changes the maps, and the
\* runtime never ends the process.
C16_ReadPhaseSafety ==
    [][ sealed
            => /\ sealed'
               /\ indices' = indices
               /\ registered' = registered
               /\ ~fatal'
               /\ \A t \in Readers :
                      (rd[t].pc = "called" /\ rd'[t].pc = "read")
                          => [ret |-> rd'[t].ret, err |-> rd'[t].err]
                                 = LookupResult(rd[t].op, rd[t].arg)
      ]_vars

\* C16 witness: the write phase is over with the custom network registered;
\* two goroutines are inside lookups at once, one has found the custom
\* network's prefix and the other is about to read.
C16_Witness ==
    /\ sealed
    /\ CustomParams.Net \in registeredNets
    /\ rd[1].pc = "read" /\ rd[1].op = "IsBech32SegwitPrefix" /\ rd[1].ret = TRUE
    /\ rd[2].pc = "called" /\ rd[2].op = "HDPrivateKeyToPublicKeyID"

\* Some of p's entries are in the maps and others are not: the magic, which
\* Register writes first, is there, and another entry is missing.
PartlyRegistered(p) ==
    /\ p.Net \in registeredNets
    /\ ~ /\ p.PubKeyHashAddrID \in pubKeyHashAddrIDs
         /\ p.ScriptHashAddrID \in scriptHashAddrIDs
         /\ p.HDPrivateKeyID \in DOMAIN hdPrivToPubKeyIDs
         /\ Append(p.Bech32HRPSegwit, 49) \in bech32SegwitPrefixes

\* C17 as stated: in no interleaving does the map read of a lookup happen in
\* a state where a profile is partly registered.
C17_Original ==
    [][ \A t \in Readers :
            (rd[t].pc = "called" /\ rd'[t].pc = "read")
                => \A p \in ConcParams : ~PartlyRegistered(p)
      ]_vars

\* C17: a profile is registered as a whole or not at all as seen between
\* Register calls: a profile is partly registered only while the Register call
\* for it is between its first and its last map write, so a lookup that reads
\* while no Register call runs finds every profile with all of its entries or
\* with none, and a Register that fails its duplicate check adds nothing.
C17_AtomicBetweenCalls ==
    \A p \in ConcParams :
        PartlyRegistered(p)
            => /\ wr.pc \in {"L718", "L719", "L720", "L724"}
               /\ wr.params = p

\* C17 witness: a lookup has found the custom network's pubkey-hash ID while
\* Register is still before the line that stores the network's bech32 prefix.
C17_Witness ==
    /\ wr.pc = "L724"
    /\ wr.params = CustomParams
    /\ PartlyRegistered(CustomParams)
    /\ \E t \in Readers :
           /\ rd[t].pc = "read"
           /\ rd[t].op = "IsPubKeyHashAddrID"
           /\ rd[t].arg = CustomParams.PubKeyHashAddrID
           /\ rd[t].ret = TRUE

\* C18: No deregistration.  Every step leaves each registered magic
\* registered, each identifier and prefix for which a lookup returns true
\* still answered true, and each key for which the HD lookup returns without
\* error still answered without error; so what has once been answered so stays
\* so in every later state.  (A step that changes neither a map nor an object
\* the maps refer to changes no lookup's answer.)
C18_NoDeregistration ==
    [][ (indices' # indices \/ registered' # registered)
            => /\ registeredNets \subseteq registeredNets'
               /\ \A i \in DOMAIN registered :
                      i \in DOMAIN registered' /\ registered'[i] = registered[i]
               /\ \A id \in InputIDs :
                      /\ IsPubKeyHashAddrID(id) => IsPubKeyHashAddrID(id)'
                      /\ IsScriptHashAddrID(id) => IsScriptHashAddrID(id)'
               /\ \A prefix \in InputPrefixes :
                      IsBech32SegwitPrefix(prefix) => IsBech32SegwitPrefix(prefix)'
               /\ \A id \in InputKeys :
                      HDPrivateKeyToPublicKeyID(id).err = NoError
                          => HDPrivateKeyToPublicKeyID(id)'.err = NoError
      ]_vars

\* C18 witness: the custom network was registered, another network after it,
\* and the lookup of the custom network's pubkey-hash ID still returns true.
C18_Witness ==
    /\ Len(registered) = Len(InitOrder) + 2
    /\ registered[Len(InitOrder) + 1] = CustomParams
    /\ call.op = "IsPubKeyHashAddrID"
    /\ call.arg = CustomParams.PubKeyHashAddrID
    /\ call.ret = TRUE

\* C19: Runtime failures are values.  In every state callers can bring the
\* package to, with any profile and any byte slice as argument, nothing has
\* panicked: the last Register call has returned nil or ErrDuplicateNet, the
\* last HDPrivateKeyToPublicKeyID call a four-byte result with nil error or
\* no result with ErrUnknownHDKeyID, and the boolean lookups a boolean.
C19_FailuresAreValues ==
    /\ ~panicked
    /\ call.op = "Register" => call.err \in {NoError, ErrDuplicateNet}
    /\ call.op = "HDPrivateKeyToPublicKeyID"
           => \/ call.err = NoError /\ Len(call.ret) = 4
              \/ call.err = ErrUnknownHDKeyID /\ call.ret = <<>>
    /\ call.op \in {"IsPubKeyHashAddrID", "IsScriptHashAddrID", "IsBech32SegwitPrefix"}
           => call.err = NoError /\ call.ret \in BOOLEAN

\* C19 witness: a caller's Register of its own network a second time has
\* returned ErrDuplicateNet, and the package goes on serving calls.
C19_Witness ==
    /\ Running
    /\ call.op = "Register"
    /\ call.arg.Net \in CustomNets
    /\ call.err = ErrDuplicateNet
    /\ ~panicked

\* C20 as stated: in every reachable state the HD map has as many keys as
\* there are registered magics.
C20_Original == Cardinality(DOMAIN hdPrivToPubKeyIDs) = Cardinality(registeredNets)

\* C20: the keys of the HD map are the distinct HDPrivateKeyIDs of the
\* registered profiles: one entry per distinct ID, so at most one per
\* registered magic, and fewer when profiles share an ID.  Right after the
\* bootstrap there are three entries for the four magics, as TestNet4Params
\* and RegressionNetParams have the same HDPrivateKeyID.
C20_HDMapCardinality ==
    /\ DOMAIN hdPrivToPubKeyIDs = {p.HDPrivateKeyID : p \in RegisteredParams}
    /\ Cardinality(registeredNets) = Len(registered)
    /\ Cardinality(DOMAIN hdPrivToPubKeyIDs) <= Cardinality(registeredNets)
    /\ (Running /\ registered = InitOrder)
           => /\ Cardinality(registeredNets) = 4
              /\ Cardinality(DOMAIN hdPrivToPubKeyIDs) = 3

\* C20 witness: init() has just returned: four magics are registered and the
\* HD map has three keys.
C20_Witness ==
    /\ Running
    /\ registered = InitOrder
    /\ call.op = "Register"
    /\ call.arg = SimNetParams
    /\ Cardinality(registeredNets) = 4
    /\ Cardinality(DOMAIN hdPrivToPubKeyIDs) = 3

\* C21: Registration-time snapshot with no aliasing.  A caller storing into
\* the bytes of a returned result changes no registered profile and the result
\* of no HDPrivateKeyToPublicKeyID call.
C21_NoAliasing ==
    [][ call'.op = "OverwriteResult"
            => /\ registered' = registered
               /\ HDMap' = HDMap
               /\ \A id \in InputKeys :
                      HDPrivateKeyToPublicKeyID(id)' = HDPrivateKeyToPublicKeyID(id)
      ]_vars

\* The built-in profiles.
BuiltinParams == {InitOrder[i] : i \in DOMAIN InitOrder}

\* C22: Checkpoint ordering.  For each registered built-in profile the heights
\* of its Checkpoints, in list order, are strictly increasing (trivially so
\* for a list of at most one entry).
C22_CheckpointOrdering ==
    \A p \in RegisteredParams \cap BuiltinParams :
        LET heights == CheckpointHeights(p)
        IN  \A i \in 1..(Len(heights) - 1) : heights[i] < heights[i + 1]

\* C22 witness: init() has registered the four profiles: the main network's
\* with its 61 checkpoints, testnet4's with one, the other two with none.
C22_Witness ==
    /\ Running
    /\ BuiltinParams \subseteq RegisteredParams
    /\ Len(CheckpointHeights(MainNetParams)) = 61
    /\ Len(CheckpointHeights(TestNet4Params)) = 1
    /\ Len(CheckpointHeights(SimNetParams)) = 0

\* C23: Deployment window sanity.  For each registered built-in profile and
\* each of the three defined deployment slots, StartTime < ExpireTime unless
\* ExpireTime is math.MaxInt64, the value that never expires.
C23_DeploymentWindows ==
    \A p \in RegisteredParams \cap BuiltinParams :
        /\ DOMAIN Deployments(p) = 0..(DefinedDeployments - 1)
        /\ \A d \in {DeploymentTestDummy, DeploymentCSV, DeploymentSegwit} :
               LET dep == Deployments(p)[d]
               IN  dep.ExpireTime # MaxInt64 => Less(dep.StartTime, dep.ExpireTime)

\* C23 witness: the four profiles are registered; the main network's CSV
\* deployment has a window that ends and the regression network's never
\* expires.
C23_Witness ==
    /\ Running
    /\ BuiltinParams \subseteq RegisteredParams
    /\ Deployments(MainNetParams)[DeploymentCSV].ExpireTime # MaxInt64
    /\ Less(Deployments(MainNetParams)[DeploymentCSV].StartTime,
            Deployments(MainNetParams)[DeploymentCSV].ExpireTime)
    /\ Deployments(RegressionNetParams)[DeploymentCSV].ExpireTime = MaxInt64

\* Both goroutines have returned from Register.
BothDone == \A t \in Writers : ws[t].pc = "done"

\* The goroutines whose Register call has returned nil.
Successful == {t \in Writers : ws[t].pc = "done" /\ ws[t].err = NoError}

\* The five maps hold the entries of the built-in profiles and of the
\* profiles ps, and of no other.
HoldsOnly(ps) ==
    LET all == BuiltinParams \cup ps
    IN  /\ registeredNets = {p.Net : p \in all}
        /\ pubKeyHashAddrIDs = {p.PubKeyHashAddrID : p \in all}
        /\ scriptHashAddrIDs = {p.ScriptHashAddrID : p \in all}
        /\ bech32SegwitPrefixes = {Append(p.Bech32HRPSegwit, 49) : p \in all}
        /\ DOMAIN HDMap = {p.HDPrivateKeyID : p \in all}
        /\ \A k \in DOMAIN HDMap :
               \E p \in all : p.HDPrivateKeyID = k /\ p.HDPublicKeyID = HDMap[k]

\* C24 as stated: when both calls have returned, exactly one has returned
\* nil and the other ErrDuplicateNet, and the maps hold only the entries of
\* the successful profile.
C24_Original ==
    BothDone
        => /\ Cardinality(Successful) = 1
           /\ \A t \in Writers \ Successful : ws[t].err = ErrDuplicateNet
           /\ \A t \in Successful : HoldsOnly({ws[t].params})

\* When both calls have returned, at least one has returned nil, each other
\* one ErrDuplicateNet, and the maps hold the entries of exactly the profiles
\* whose call returned nil.
RaceOutcome ==
    BothDone
        => /\ Successful # {}
           /\ \A t \in Writers \ Successful : ws[t].err = ErrDuplicateNet
           /\ HoldsOnly({ws[t].params : t \in Successful})

\* C24: insert-once holds for calls that do not overlap.  A call whose
\* duplicate check runs when the magic is in registeredNets returns
\* ErrDuplicateNet (and only such a call does), so when one call has written
\* the magic before the other checks, exactly one succeeds.  When both have
\* returned, at least one has returned nil, each other one ErrDuplicateNet,
\* and the maps hold the entries of exactly the profiles whose call returned
\* nil: of both, when both checks ran before either write of the magic.
C24_InsertOnceWithoutOverlap ==
    [][ /\ \A t \in Writers :
               (ws[t].pc = "L714" /\ ws'[t].pc # "L714")
                   => IF ws[t].params.Net \in registeredNets
                      THEN ws'[t].pc = "done" /\ ws'[t].err = ErrDuplicateNet
                      ELSE ws'[t].pc = "L717"
        /\ RaceOutcome'
      ]_vars

\* C24 witness: both goroutines passed the duplicate check before either
\* wrote the magic; both calls, with different profiles, have returned nil and
\* both pubkey-hash IDs are in the map.
C24_Witness ==
    /\ BothDone
    /\ Successful = Writers
    /\ ws[1].params # ws[2].params
    /\ IsPubKeyHashAddrID(ws[1].params.PubKeyHashAddrID)
    /\ IsPubKeyHashAddrID(ws[2].params.PubKeyHashAddrID)

\* C25: PowLimit consistency.  For each registered built-in profile,
\* PowLimitBits decoded as a compact target is exactly the profile's PowLimit.
C25_PowLimitConsistency ==
    \A p \in RegisteredParams \cap BuiltinParams :
        CompactToBig(PowLimitBits(p)) = PowLimit(p)

\* C26: Confirmation window definition.  For each registered built-in
\* profile MinerConfirmationWindow is TargetTimespan / TargetTimePerBlock, and
\* RuleChangeActivationThreshold is at most MinerConfirmationWindow.
C26_ConfirmationWindow ==
    \A p \in RegisteredParams \cap BuiltinParams :
        /\ MinerConfirmationWindow(p) = TargetTimespan(p) \div TargetTimePerBlock(p)
        /\ RuleChangeActivationThreshold(p) <= MinerConfirmationWindow(p)

\* In the set ps of profiles, equal HDPrivateKeyIDs come with equal
\* HDPublicKeyIDs.
Compatible(ps) ==
    \A p, q \in ps : p.HDPrivateKeyID = q.HDPrivateKeyID => p.HDPublicKeyID = q.HDPublicKeyID

\* The contents of the five maps as the set ps of profiles alone gives them.
ContentsOf(ps) ==
    <<{p.Net : p \in ps},
      {p.PubKeyHashAddrID : p \in ps},
      {p.ScriptHashAddrID : p \in ps},
      {Append(p.Bech32HRPSegwit, 49) : p \in ps},
      [k \in {p.HDPrivateKeyID : p \in ps}
          |-> (CHOOSE p \in ps : p.HDPrivateKeyID = k).HDPublicKeyID]>>

\* C27: HD prefix collisions are last-writer-wins.  The registered profiles
\* have pairwise distinct magics; the HD map has one entry for each of their
\* HDPrivateKeyIDs and the lookup returns the HDPublicKeyID of the profile
\* registered last with that ID.  When equal HDPrivateKeyIDs come with equal
\* HDPublicKeyIDs, the contents of the five maps are determined by the set of
\* registered profiles, whatever the order they were registered in.
C27_LastWriterWins ==
    /\ \A i, j \in DOMAIN registered : registered[i].Net = registered[j].Net => i = j
    /\ \A i \in DOMAIN registered :
           LET key == registered[i].HDPrivateKeyID
           IN  /\ key \in DOMAIN hdPrivToPubKeyIDs
               /\ hdPrivToPubKeyIDs[key] = LastWithKeyOf(i)
               /\ HDPrivateKeyToPublicKeyID(key).ret
                      = registered[LastWithKeyOf(i)].HDPublicKeyID
    /\ Compatible(RegisteredParams) => Contents = ContentsOf(RegisteredParams)

\* C27 witness: the two custom magics were registered with the same HD IDs,
\* 0x0BADCAFE first, and the HD map refers to the object registered last; a
\* lookup of the testnet4 and regression key returned their common public ID.
C27_Witness ==
    /\ Len(registered) = Len(InitOrder) + 2
    /\ registered[Len(registered)] = CustomParams
    /\ registered[Len(registered) - 1].HDPrivateKeyID = CustomParams.HDPrivateKeyID
    /\ hdPrivToPubKeyIDs[CustomParams.HDPrivateKeyID] = Len(registered)
    /\ Compatible(RegisteredParams)
    /\ call.op = "HDPrivateKeyToPublicKeyID"
    /\ call.arg = TestNet4Params.HDPrivateKeyID
    /\ call.ret = RegressionNetParams.HDPublicKeyID

\* The state right after bootstrap: init has finished and nothing else was
\* registered.
AfterBootstrap == Running /\ registered = InitOrder

\* C28: no built-in address-type ambiguity.  Right after bootstrap no byte id
\* has both IsPubKeyHashAddrID(id) and IsScriptHashAddrID(id) true, the ids
\* that IsPubKeyHashAddrID accepts are exactly 0x30, 0x6f and 0x3f, and the ids
\* that IsScriptHashAddrID accepts are exactly 0x32, 0x3a and 0x7b.
C28_NoBuiltinAmbiguity ==
    AfterBootstrap =>
        /\ \A id \in 0..255 : ~(IsPubKeyHashAddrID(id) /\ IsScriptHashAddrID(id))
        /\ {id \in 0..255 : IsPubKeyHashAddrID(id)} = {48, 111, 63}
        /\ {id \in 0..255 : IsScriptHashAddrID(id)} = {50, 58, 123}
        /\ pubKeyHashAddrIDs \subseteq 0..255
        /\ scriptHashAddrIDs \subseteq 0..255

\* C28 witness: right after bootstrap IsScriptHashAddrID was asked about the
\* pubkey-hash id of testnet4 and regtest and answered false.
C28_Witness ==
    /\ AfterBootstrap
    /\ call.op = "IsScriptHashAddrID"
    /\ call.arg = TestNet4Params.PubKeyHashAddrID
    /\ call.ret = FALSE
    /\ IsPubKeyHashAddrID(call.arg)

\* The Hash of entry i of the Checkpoints of a built-in profile, as the
\* profile's initialiser computes it.
CheckpointHash(params, i) == newHashFromStr(CheckpointHashStrs(params)[i]).hash

\* C29: genesis checkpoint consistency.  For every registered built-in profile
\* and every entry of its Checkpoints at height 0, the entry's hash, which
\* newHashFromStr parsed from the big-endian hex string into the byte-reversed
\* internal order, equals the profile's GenesisHash.
C29_GenesisCheckpoint ==
    \A n \in DOMAIN registered :
        registered[n] \in BuiltinParams =>
            \A i \in DOMAIN CheckpointHeights(registered[n]) :
                CheckpointHeights(registered[n])[i] = 0 =>
                    /\ ~newHashFromStr(CheckpointHashStrs(registered[n])[i]).panic
                    /\ CheckpointHash(registered[n], i) = GenesisHash(registered[n])

====
